---- MODULE Spec2Model ----
(***************************************************************************)
(* A model of the CSS and HTML lexer+parser pipelines of this repository:  *)
(*   src/src/css/tokenizer.rs   CssTokenizer                               *)
(*   src/src/css/parser.rs      CssParser                                  *)
(*   src/src/html/tokenizer.rs  HtmlTokenizer                              *)
(*   src/src/html/parser.rs     HtmlParser                                 *)
(*                                                                         *)
(* An input string is a sequence of characters; a character is a string    *)
(* of length one.  Rust strings are UTF-8: `position` is compared with     *)
(* input.len() and used in slices as a BYTE offset, while current_char()   *)
(* and peek_char() read it as a CHARACTER index (chars().nth(position)).   *)
(* The model keeps both readings: the character Wide occupies two bytes,   *)
(* every other character one.  A slice whose bounds are out of range or    *)
(* not on a character boundary panics; a panic ends the run (pc = "panic").*)
(***************************************************************************)
EXTENDS Integers, Sequences, FiniteSets, TLC

VARIABLES
    input,          \* the input string (immutable), a sequence of characters
    position,       \* tokenizer.position, a byte offset
    current_token,  \* parser.current_token (or the token the tokenizer returned last)
    pc,             \* where the running function stands
    rules,          \* CssParser::parse: `rules`
    selectors,      \* CssParser::parse_rule: `selectors` of the rule being built
    declarations,   \* CssParser::parse_declarations: `declarations`
    span,           \* cursor before / after the last next_token call
    tag,            \* HtmlTokenizer::parse_tag_or_comment: start tag being read
    stack,          \* HtmlParser: open parse_element frames, innermost last
    nodes           \* HtmlParser::parse: `nodes`

vars == <<input, position, current_token, pc, rules, selectors, declarations,
          span, tag, stack, nodes>>

-----------------------------------------------------------------------------
(* Bounds of the model.                                                    *)

MaxLen == 4
MaxSimple == 3
MaxSelectors == 3
MaxDecls == 3
MaxValueLen == 3
MaxPieces == 3
MaxTokLen == 3
MaxTokPieces == 2
MaxAttrs == 2
MaxRules == 3

-----------------------------------------------------------------------------
(* Characters.                                                             *)

\* A character that occupies two bytes in UTF-8, named by its code point
\* (e with acute accent); alphabetic.
Wide == "U+00E9"

\* Option<char>::None
NoChar == ""

AsciiDigits == {"0", "1", "2", "3", "4", "5", "6", "7", "8", "9"}

AsciiLetters ==
    {"a", "b", "c", "d", "e", "f", "g", "h", "i", "j", "k", "l", "m",
     "n", "o", "p", "q", "r", "s", "t", "u", "v", "w", "x", "y", "z",
     "A", "B", "C", "D", "E", "F", "G", "H", "I", "J", "K", "L", "M",
     "N", "O", "P", "Q", "R", "S", "T", "U", "V", "W", "X", "Y", "Z"}

\* The form feed character, named by its code point: whitespace for
\* char::is_whitespace, one byte in UTF-8.
FormFeed == "U+000C"

\* char::is_whitespace, restricted to the characters of the model
WhitespaceChars == {" ", "\t", "\n", "\r", FormFeed}

\* char::is_alphabetic / char::is_alphanumeric (Unicode aware)
AlphabeticChars == AsciiLetters \cup {Wide}
AlphanumericChars == AlphabeticChars \cup AsciiDigits

\* ch.is_alphanumeric() || ch == '-' || ch == '_'
NameChars == AlphanumericChars \cup {"-", "_"}

\* char::len_utf8
Width(c) == IF c = Wide THEN 2 ELSE 1

RECURSIVE ByteLen(_)
\* str::len: the length in bytes
ByteLen(s) == IF s = <<>> THEN 0 ELSE Width(Head(s)) + ByteLen(Tail(s))

\* str::is_char_boundary
IsCharBoundary(s, b) == \E i \in 0..Len(s) : ByteLen(SubSeq(s, 1, i)) = b

\* the number of characters that start before byte offset b
CharsBefore(s, b) == Cardinality({i \in 1..Len(s) : ByteLen(SubSeq(s, 1, i - 1)) < b})

\* &input[a..b] does not panic
SliceOk(s, a, b) ==
    /\ 0 <= a /\ a <= b /\ b <= ByteLen(s)
    /\ IsCharBoundary(s, a) /\ IsCharBoundary(s, b)

\* &input[a..b], when it does not panic
Slice(s, a, b) == SubSeq(s, CharsBefore(s, a) + 1, CharsBefore(s, b))

\* self.input.chars().nth(self.position + offset)
PeekChar(s, p, offset) == IF p + offset < Len(s) THEN s[p + offset + 1] ELSE NoChar

\* self.input.chars().nth(self.position)
CurrentChar(s, p) == PeekChar(s, p, 0)

\* advance(): if self.position < self.input.len() { self.position += 1 }
Advance(s, p) == IF p < ByteLen(s) THEN p + 1 ELSE p

RECURSIVE ScanWhile(_, _, _)
\* while let Some(ch) = self.current_char() { if ch in class { advance } else { break } }
ScanWhile(s, p, class) ==
    IF CurrentChar(s, p) # NoChar /\ CurrentChar(s, p) \in class
    THEN ScanWhile(s, Advance(s, p), class)
    ELSE p

RECURSIVE TrimStart(_)
TrimStart(s) ==
    IF s # <<>> /\ Head(s) \in WhitespaceChars THEN TrimStart(Tail(s)) ELSE s

RECURSIVE TrimEnd(_)
TrimEnd(s) ==
    IF s # <<>> /\ s[Len(s)] \in WhitespaceChars
    THEN TrimEnd(SubSeq(s, 1, Len(s) - 1)) ELSE s

\* str::trim
Trim(s) == TrimEnd(TrimStart(s))

-----------------------------------------------------------------------------
(* Tokens.  A token is a record: kind, text (its string field, or the      *)
(* character of a Delim, or the unit of a Dimension) and num (the f64 of a *)
(* Number, Dimension or Percentage, written as Rust's Display prints it).  *)

Token(kind, text, num) == [kind |-> kind, text |-> text, num |-> num]

\* Option<Token>::None
NoToken == Token("None", <<>>, <<>>)

\* What a next_token call leaves behind: the token returned, the cursor, and
\* whether the call returned (ok) or panicked in a slice.
Returned(tok, p) == [tok |-> tok, pos |-> p, ok |-> TRUE]
Panicked(p) == [tok |-> NoToken, pos |-> p, ok |-> FALSE]

\* Some(Kind(&input[a..b])) with the cursor left at p
Sliced(s, kind, a, b, p) ==
    IF SliceOk(s, a, b) THEN Returned(Token(kind, Slice(s, a, b), <<>>), p)
    ELSE Panicked(p)

-----------------------------------------------------------------------------
(* f64: str::parse::<f64>() and the Display of the parsed value.  Only the *)
(* decimal forms are modelled (sign, digits, one point): exponents, "inf"  *)
(* and "nan" need letters that no numeric lexeme of the model contains.    *)

F64Body(l) == IF l # <<>> /\ l[1] \in {"-", "+"} THEN Tail(l) ELSE l

\* number_str.parse::<f64>().is_ok()
IsF64(l) ==
    LET body == F64Body(l)
    IN  /\ \A i \in 1..Len(body) : body[i] \in AsciiDigits \cup {"."}
        /\ Cardinality({i \in 1..Len(body) : body[i] = "."}) <= 1
        /\ \E i \in 1..Len(body) : body[i] \in AsciiDigits

RECURSIVE StripLeadingZeros(_)
StripLeadingZeros(d) ==
    IF d # <<>> /\ Head(d) = "0" THEN StripLeadingZeros(Tail(d)) ELSE d

RECURSIVE StripTrailingZeros(_)
StripTrailingZeros(d) ==
    IF d # <<>> /\ d[Len(d)] = "0"
    THEN StripTrailingZeros(SubSeq(d, 1, Len(d) - 1)) ELSE d

\* f64::to_string of the value a valid lexeme parses to: shortest decimal form,
\* no trailing ".0", "-0" for negative zero
F64Display(l) ==
    LET body == F64Body(l)
        dot == IF \E i \in 1..Len(body) : body[i] = "."
               THEN CHOOSE i \in 1..Len(body) : body[i] = "."
               ELSE Len(body) + 1
        int == StripLeadingZeros(SubSeq(body, 1, dot - 1))
        frac == StripTrailingZeros(SubSeq(body, dot + 1, Len(body)))
        sign == IF l # <<>> /\ l[1] = "-" THEN <<"-">> ELSE <<>>
    IN  sign \o (IF int = <<>> THEN <<"0">> ELSE int)
             \o (IF frac = <<>> THEN <<>> ELSE <<".">> \o frac)

\* number_str.parse::<f64>().unwrap_or(0.0), as Display prints it
ParseF64(l) == IF IsF64(l) THEN F64Display(l) ELSE <<"0">>

-----------------------------------------------------------------------------
(* CssTokenizer (src/src/css/tokenizer.rs).                                *)

\* a Whitespace token returned with the cursor left where it was
consume_whitespace_stalled(s, p) == Returned(Token("Whitespace", <<>>, <<>>), p)

\* consume_whitespace
consume_whitespace(s, p) ==
    Returned(Token("Whitespace", <<>>, <<>>), ScanWhile(s, p, WhitespaceChars))

RECURSIVE CommentEnd(_, _)
\* the loop of consume_comment: the cursor at the closing "*/", or -1 when the
\* loop runs out (self.position + 1 >= self.input.len())
CommentEnd(s, p) ==
    IF p + 1 < ByteLen(s)
    THEN IF CurrentChar(s, p) = "*" /\ PeekChar(s, p, 1) = "/" THEN p
         ELSE CommentEnd(s, Advance(s, p))
    ELSE -1

\* consume_comment
consume_comment(s, p) ==
    LET start == Advance(s, Advance(s, p))
        close == CommentEnd(s, start)
    IN  IF close >= 0
        THEN Sliced(s, "Comment", start, close, Advance(s, Advance(s, close)))
        ELSE Sliced(s, "Comment", start, ByteLen(s), ByteLen(s))

RECURSIVE StringEnd(_, _, _)
\* the loop of consume_string: the cursor at the closing quote, or -1 when
\* current_char() runs out
StringEnd(s, p, quote) ==
    LET ch == CurrentChar(s, p)
    IN  IF ch = NoChar THEN -1
        ELSE IF ch = quote THEN p
        ELSE IF ch = "\\"
             THEN LET q == Advance(s, p)
                  IN  StringEnd(s, IF CurrentChar(s, q) # NoChar THEN Advance(s, q) ELSE q,
                                quote)
        ELSE StringEnd(s, Advance(s, p), quote)

\* consume_string
consume_string(s, p, quote) ==
    LET start == Advance(s, p)
        close == StringEnd(s, start, quote)
    IN  IF close >= 0
        THEN Sliced(s, "String", start, close, Advance(s, close))
        ELSE Sliced(s, "String", start, ByteLen(s), ByteLen(s))

\* consume_hash with the slice ending one byte past the cursor
consume_hash_past_cursor(s, p) ==
    LET start == Advance(s, p)
        end == ScanWhile(s, start, NameChars)
    IN  IF start = end THEN Returned(Token("Delim", <<"#">>, <<>>), end)
        ELSE Sliced(s, "Hash", start, end + 1, end)

\* consume_hash
consume_hash(s, p) ==
    LET start == Advance(s, p)
        end == ScanWhile(s, start, NameChars)
    IN  IF start = end THEN Returned(Token("Delim", <<"#">>, <<>>), end)
        ELSE Sliced(s, "Hash", start, end, end)

\* consume_at_keyword
consume_at_keyword(s, p) ==
    LET start == Advance(s, p)
        end == ScanWhile(s, start, NameChars)
    IN  IF start = end THEN Returned(Token("Delim", <<"@">>, <<>>), end)
        ELSE Sliced(s, "AtKeyword", start, end, end)

RECURSIVE NumberEnd(_, _, _)
\* the digit loop of consume_number
NumberEnd(s, p, has_dot) ==
    LET ch == CurrentChar(s, p)
    IN  IF ch # NoChar /\ ch \in AsciiDigits THEN NumberEnd(s, Advance(s, p), has_dot)
        ELSE IF ch = "." /\ ~has_dot THEN NumberEnd(s, Advance(s, p), TRUE)
        ELSE p

\* the numeric lexeme consume_number collects: &self.input[start..self.position]
NumberLexeme(s, p) ==
    LET end == NumberEnd(s, IF CurrentChar(s, p) = "-" THEN Advance(s, p) ELSE p, FALSE)
    IN  [ok |-> SliceOk(s, p, end), end |-> end,
         str |-> IF SliceOk(s, p, end) THEN Slice(s, p, end) ELSE <<>>]

\* consume_number
consume_number(s, p) ==
    LET lex == NumberLexeme(s, p)
        end == lex.end
        value == ParseF64(lex.str)
        ch == CurrentChar(s, end)
        unit_end == ScanWhile(s, end, AlphanumericChars)
    IN  IF ~lex.ok THEN Panicked(end)
        ELSE IF ch = "%" THEN Returned(Token("Percentage", <<>>, value), Advance(s, end))
        ELSE IF ch # NoChar /\ ch \in AlphabeticChars
             THEN IF SliceOk(s, end, unit_end)
                  THEN Returned(Token("Dimension", Slice(s, end, unit_end), value), unit_end)
                  ELSE Panicked(unit_end)
        ELSE Returned(Token("Number", <<>>, value), end)

RECURSIVE UrlEnd(_, _, _)
\* the loop of the url( branch: the cursor at the closing quote (quoted body)
\* or at ')' (unquoted body), or -1 when current_char() runs out
UrlEnd(s, p, quote_char) ==
    LET ch == CurrentChar(s, p)
    IN  IF ch = NoChar THEN -1
        ELSE IF quote_char # NoChar /\ ch = quote_char THEN p
        ELSE IF quote_char = NoChar /\ ch = ")" THEN p
        ELSE UrlEnd(s, Advance(s, p), quote_char)

\* the url( branch of consume_ident_or_url, entered with the cursor at '('
consume_url(s, p) ==
    LET open == ScanWhile(s, Advance(s, p), WhitespaceChars)
        quote_char == IF CurrentChar(s, open) \in {"\"", "'"}
                      THEN CurrentChar(s, open) ELSE NoChar
        url_content_start == IF quote_char # NoChar THEN Advance(s, open) ELSE open
        close == UrlEnd(s, url_content_start, quote_char)
        after_quote == ScanWhile(s, Advance(s, close), WhitespaceChars)
    IN  IF close < 0
        THEN Sliced(s, "Url", url_content_start, ByteLen(s), ByteLen(s))
        ELSE IF quote_char # NoChar
        THEN Sliced(s, "Url", url_content_start, close,
                    IF CurrentChar(s, after_quote) = ")"
                    THEN Advance(s, after_quote) ELSE after_quote)
        ELSE IF SliceOk(s, url_content_start, close)
             THEN Returned(Token("Url", Trim(Slice(s, url_content_start, close)), <<>>),
                           Advance(s, close))
             ELSE Panicked(close)

\* consume_ident_or_url
consume_ident_or_url(s, p) ==
    LET end == ScanWhile(s, p, NameChars)
    IN  IF ~SliceOk(s, p, end) THEN Panicked(end)
        ELSE IF Slice(s, p, end) = <<"u", "r", "l">> /\ CurrentChar(s, end) = "("
        THEN consume_url(s, end)
        ELSE Returned(Token("Ident", Slice(s, p, end), <<>>), end)

\* is_number_start
is_number_start(s, p) ==
    PeekChar(s, p, 1) # NoChar /\ PeekChar(s, p, 1) \in AsciiDigits \cup {"."}

\* the single-character structural tokens of next_token
Structural(ch) ==
    CASE ch = "{" -> "LeftBrace"
      [] ch = "}" -> "RightBrace"
      [] ch = "(" -> "LeftParen"
      [] ch = ")" -> "RightParen"
      [] ch = "[" -> "LeftBracket"
      [] ch = "]" -> "RightBracket"
      [] ch = ":" -> "Colon"
      [] ch = ";" -> "Semicolon"
      [] ch = "," -> "Comma"
      [] OTHER -> "None"

\* CssTokenizer::next_token
css_next_token(s, p) ==
    LET ch == CurrentChar(s, p)
    IN  IF p >= ByteLen(s) \/ ch = NoChar THEN Returned(NoToken, p)
        ELSE IF ch \in {" ", "\t", "\n", "\r"} THEN consume_whitespace(s, p)
        ELSE IF ch = "/" /\ PeekChar(s, p, 1) = "*" THEN consume_comment(s, p)
        ELSE IF Structural(ch) # "None"
             THEN Returned(Token(Structural(ch), <<>>, <<>>), Advance(s, p))
        ELSE IF ch \in {"\"", "'"} THEN consume_string(s, p, ch)
        ELSE IF ch = "#" THEN consume_hash(s, p)
        ELSE IF ch = "@" THEN consume_at_keyword(s, p)
        ELSE IF ch \in AsciiDigits THEN consume_number(s, p)
        ELSE IF ch = "." /\ PeekChar(s, p, 1) # NoChar /\ PeekChar(s, p, 1) \in AsciiDigits
             THEN consume_number(s, p)
        ELSE IF ch = "-" /\ is_number_start(s, p) THEN consume_number(s, p)
        ELSE IF ch \in AsciiLetters \cup {"_", "-"} THEN consume_ident_or_url(s, p)
        ELSE Returned(Token("Delim", <<ch>>, <<>>), Advance(s, p))

-----------------------------------------------------------------------------
(* HtmlTokenizer (src/src/html/tokenizer.rs).  A start tag's attribute     *)
(* loop is run one iteration per step (HtmlAttributeLoop below); the rest  *)
(* of next_token is computed by html_next_token.                           *)

RECURSIVE ScanUntil(_, _, _)
\* while let Some(ch) = self.current_char() { if ch in stop { break } advance }
ScanUntil(s, p, stop) ==
    IF CurrentChar(s, p) # NoChar /\ CurrentChar(s, p) \notin stop
    THEN ScanUntil(s, Advance(s, p), stop)
    ELSE p

UpperCase == <<"A", "B", "C", "D", "E", "F", "G", "H", "I", "J", "K", "L", "M",
               "N", "O", "P", "Q", "R", "S", "T", "U", "V", "W", "X", "Y", "Z">>
LowerCase == <<"a", "b", "c", "d", "e", "f", "g", "h", "i", "j", "k", "l", "m",
               "n", "o", "p", "q", "r", "s", "t", "u", "v", "w", "x", "y", "z">>

\* char::to_lowercase, for the characters of the model
LowerChar(c) ==
    IF \E i \in 1..26 : UpperCase[i] = c
    THEN LowerCase[CHOOSE i \in 1..26 : UpperCase[i] = c]
    ELSE c

\* str::to_lowercase
to_lowercase(x) == [i \in 1..Len(x) |-> LowerChar(x[i])]

\* str::starts_with
starts_with(x, prefix) ==
    Len(x) >= Len(prefix) /\ SubSeq(x, 1, Len(prefix)) = prefix

\* HtmlToken: StartTag { name, attributes, self_closing }, EndTag { name },
\* Text, Comment, Doctype; `text` is the name or the content
HtmlToken(kind, text, attributes, self_closing) ==
    [kind |-> kind, text |-> text, attributes |-> attributes,
     self_closing |-> self_closing]

\* Some(Kind(&input[a..b])) with the cursor left at p
HtmlSliced(s, kind, a, b, p) ==
    IF SliceOk(s, a, b)
    THEN Returned(HtmlToken(kind, Slice(s, a, b), <<>>, FALSE), p)
    ELSE Panicked(p)

\* parse_text
parse_text(s, p) ==
    LET end == ScanUntil(s, p, {"<"})
    IN  IF end = p THEN Returned(NoToken, p)
        ELSE HtmlSliced(s, "Text", p, end, end)

RECURSIVE CommentClose(_, _)
\* the loop of parse_comment: the cursor at the closing "-->", -1 when the loop
\* runs out (self.position + 2 >= self.input.len()), -2 when the slice
\* &self.input[self.position..self.position + 3] panics
CommentClose(s, p) ==
    IF p + 2 < ByteLen(s)
    THEN IF ~SliceOk(s, p, p + 3) THEN -2
         ELSE IF Slice(s, p, p + 3) = <<"-", "-", ">">> THEN p
         ELSE CommentClose(s, Advance(s, p))
    ELSE -1

\* parse_comment, entered with the cursor at "!--"
parse_comment(s, p) ==
    LET close == CommentClose(s, p + 3)
    IN  IF close = -2 THEN Panicked(p + 3)
        ELSE IF close >= 0 THEN HtmlSliced(s, "Comment", p + 3, close, close + 3)
        ELSE HtmlSliced(s, "Comment", p + 3, ByteLen(s), ByteLen(s))

\* parse_doctype, entered with the cursor after '<'
parse_doctype(s, p) ==
    LET end == ScanUntil(s, p, {">"})
    IN  IF CurrentChar(s, end) = ">"
        THEN HtmlSliced(s, "Doctype", p, end, Advance(s, end))
        ELSE HtmlSliced(s, "Doctype", p, ByteLen(s), ByteLen(s))

\* the end-tag branch of parse_tag_or_comment: skip to '>' and past it
EndTag(s, name_start, name_end) ==
    LET gt == ScanUntil(s, name_end, {">"})
    IN  HtmlSliced(s, "EndTag", name_start, name_end,
                   IF CurrentChar(s, gt) = ">" THEN Advance(s, gt) ELSE gt)

\* A next_token call that has reached the attribute loop of a start tag: the
\* cursor is after the tag name, the token is not yet returned.
InStartTag(s, name_start, name_end) ==
    IF SliceOk(s, name_start, name_end)
    THEN [tok |-> HtmlToken("StartTag", Slice(s, name_start, name_end), <<>>, FALSE),
          pos |-> name_end, ok |-> TRUE, open |-> TRUE]
    ELSE Panicked(name_end) @@ [open |-> FALSE]

\* parse_tag_or_comment from the tag name on; name_start is after '<' or "</"
TagName(s, start_pos, is_end_tag, name_start, name_end) ==
    IF name_start = name_end THEN parse_text(s, start_pos) @@ [open |-> FALSE]
    ELSE IF is_end_tag THEN EndTag(s, name_start, name_end) @@ [open |-> FALSE]
    ELSE InStartTag(s, name_start, name_end)

\* parse_tag_or_comment after the comment and doctype checks
TagOrEndTag(s, start_pos, is_end_tag, name_start) ==
    TagName(s, start_pos, is_end_tag, name_start, ScanWhile(s, name_start, NameChars))

\* parse_tag_or_comment, entered with the cursor p at '<'; `rest` is
\* &self.input[self.position..] after the '<'
TagOrComment(s, p, rest) ==
    IF starts_with(rest, <<"!", "-", "-">>)
    THEN parse_comment(s, Advance(s, p)) @@ [open |-> FALSE]
    ELSE IF starts_with(to_lowercase(rest), <<"!", "d", "o", "c", "t", "y", "p", "e">>)
    THEN parse_doctype(s, Advance(s, p)) @@ [open |-> FALSE]
    ELSE TagOrEndTag(s, p, CurrentChar(s, Advance(s, p)) = "/",
                     IF CurrentChar(s, Advance(s, p)) = "/"
                     THEN Advance(s, Advance(s, p)) ELSE Advance(s, p))

\* parse_tag_or_comment up to the attribute loop
parse_tag_or_comment(s, p) ==
    IF SliceOk(s, Advance(s, p), ByteLen(s))
    THEN TagOrComment(s, p, Slice(s, Advance(s, p), ByteLen(s)))
    ELSE Panicked(Advance(s, p)) @@ [open |-> FALSE]

\* next_token after its skip_whitespace
Dispatch(s, p) ==
    IF p >= ByteLen(s) \/ CurrentChar(s, p) = NoChar
    THEN Returned(NoToken, p) @@ [open |-> FALSE]
    ELSE IF CurrentChar(s, p) = "<" THEN parse_tag_or_comment(s, p)
    ELSE parse_text(s, p) @@ [open |-> FALSE]

\* HtmlTokenizer::next_token up to the attribute loop of a start tag: `open`
\* tells that the call is in that loop and has not returned yet
html_next_token(s, p) == Dispatch(s, ScanWhile(s, p, WhitespaceChars))

\* the quoted branch of parse_attribute: value_start is after the opening quote
QuotedValue(s, name, value_start, close, quote) ==
    IF ~SliceOk(s, value_start, close) THEN [ok |-> FALSE, some |-> FALSE, pos |-> close]
    ELSE [ok |-> TRUE, some |-> TRUE, name |-> name,
          value |-> Slice(s, value_start, close),
          pos |-> IF CurrentChar(s, close) = quote THEN Advance(s, close) ELSE close]

\* the unquoted branch of parse_attribute
UnquotedValue(s, name, value_start, end) ==
    IF ~SliceOk(s, value_start, end) THEN [ok |-> FALSE, some |-> FALSE, pos |-> end]
    ELSE [ok |-> TRUE, some |-> TRUE, name |-> name,
          value |-> Slice(s, value_start, end), pos |-> end]

\* parse_attribute after '=' and the skip_whitespace that follows it
AttributeValue(s, name, p) ==
    IF CurrentChar(s, p) \in {"\"", "'"}
    THEN QuotedValue(s, name, Advance(s, p),
                     ScanUntil(s, Advance(s, p), {CurrentChar(s, p)}), CurrentChar(s, p))
    ELSE UnquotedValue(s, name, p, ScanUntil(s, p, WhitespaceChars \cup {">", "/"}))

\* parse_attribute after the name and the skip_whitespace that follows it
AfterAttributeName(s, name, p) ==
    IF CurrentChar(s, p) # "="
    THEN [ok |-> TRUE, some |-> TRUE, name |-> name, value |-> <<>>, pos |-> p]
    ELSE AttributeValue(s, name, ScanWhile(s, Advance(s, p), WhitespaceChars))

\* parse_attribute from the end of the name
AttributeName(s, name_start, name_end) ==
    IF name_start = name_end THEN [ok |-> TRUE, some |-> FALSE, pos |-> name_end]
    ELSE IF ~SliceOk(s, name_start, name_end)
    THEN [ok |-> FALSE, some |-> FALSE, pos |-> name_end]
    ELSE AfterAttributeName(s, Slice(s, name_start, name_end),
                            ScanWhile(s, name_end, WhitespaceChars))

\* parse_attribute: `some` is FALSE for None
parse_attribute(s, p) == AttributeName(s, p, ScanWhile(s, p, NameChars))

\* the iteration with every `/` ending the tag as self-closing
AttributeIteration_slash(s, t, p, a) ==
    LET ch == CurrentChar(s, p)
    IN  IF ch = NoChar THEN [tok |-> t, pos |-> p, ok |-> TRUE, break |-> TRUE]
        ELSE IF ch = ">" THEN [tok |-> t, pos |-> Advance(s, p), ok |-> TRUE, break |-> TRUE]
        ELSE IF ch = "/"
        THEN [tok |-> [t EXCEPT !.self_closing = TRUE],
              pos |-> IF CurrentChar(s, Advance(s, p)) = ">"
                      THEN Advance(s, Advance(s, p)) ELSE Advance(s, p),
              ok |-> TRUE, break |-> TRUE]
        ELSE [tok |-> IF a.some
                      THEN [t EXCEPT !.attributes = Append(@, <<a.name, a.value>>)]
                      ELSE t,
              pos |-> a.pos, ok |-> a.ok, break |-> FALSE]

\* one iteration of the attribute loop of parse_tag_or_comment, entered after
\* its skip_whitespace with the start tag `t` read so far: `break` tells that
\* the loop ends and the token is returned
AttributeIteration(s, t, p, a) ==
    LET ch == CurrentChar(s, p)
    IN  IF ch = NoChar THEN [tok |-> t, pos |-> p, ok |-> TRUE, break |-> TRUE]
        ELSE IF ch = ">" THEN [tok |-> t, pos |-> Advance(s, p), ok |-> TRUE, break |-> TRUE]
        ELSE IF ch = "/"
        THEN IF CurrentChar(s, Advance(s, p)) = ">"
             THEN [tok |-> [t EXCEPT !.self_closing = TRUE],
                   pos |-> Advance(s, Advance(s, p)), ok |-> TRUE, break |-> TRUE]
             ELSE [tok |-> t, pos |-> Advance(s, p), ok |-> TRUE, break |-> FALSE]
        ELSE [tok |-> IF a.some
                      THEN [t EXCEPT !.attributes = Append(@, <<a.name, a.value>>)]
                      ELSE t,
              pos |-> a.pos, ok |-> a.ok, break |-> FALSE]

\* one iteration of the attribute loop of parse_tag_or_comment
attribute_loop(s, t, p) ==
    AttributeIteration(s, t, ScanWhile(s, p, WhitespaceChars),
                       parse_attribute(s, ScanWhile(s, p, WhitespaceChars)))

-----------------------------------------------------------------------------
(* CssParser (src/src/css/parser.rs).  The parser's own state is the       *)
(* tokenizer cursor and the one token of lookahead; `ok` is FALSE once a   *)
(* tokenizer call has panicked, and nothing runs after that.  The parser   *)
(* functions take the tokenizer as `tk`: what next_token does at each      *)
(* cursor position of the input.                                           *)

\* self.tokenizer.next_token() at every cursor position of input s
CssTokens(s) == [p \in 0..ByteLen(s) |-> css_next_token(s, p)]

ParserState(p, tok, ok) == [pos |-> p, cur |-> tok, ok |-> ok]

\* CssParser::advance: self.current_token = self.tokenizer.next_token()
css_advance(tk, st) ==
    IF ~st.ok THEN st
    ELSE LET r == tk[st.pos] IN ParserState(r.pos, r.tok, r.ok)

RECURSIVE css_skip_whitespace(_, _)
\* CssParser::skip_whitespace: skips Whitespace and Comment tokens
css_skip_whitespace(tk, st) ==
    IF st.ok /\ st.cur.kind \in {"Whitespace", "Comment"}
    THEN css_skip_whitespace(tk, css_advance(tk, st))
    ELSE st

\* Selector
Simple(kind, name) == [kind |-> kind, name |-> name]
Combinator(kind, left, right) == [kind |-> kind, left |-> left, right |-> right]
\* Option<Selector>::None
NoSelector == [kind |-> "None"]

\* parse_simple_selector
parse_simple_selector(tk, st) ==
    LET tok == st.cur
        next == css_advance(tk, st)
    IN  IF ~st.ok THEN [sel |-> NoSelector, st |-> st]
        ELSE IF tok.kind = "Ident"
             THEN [sel |-> Simple("Type", tok.text), st |-> next]
        ELSE IF tok.kind = "Hash"
             THEN [sel |-> Simple("Id", tok.text), st |-> next]
        ELSE IF tok.kind = "Delim" /\ tok.text = <<".">>
             THEN IF next.ok /\ next.cur.kind = "Ident"
                  THEN [sel |-> Simple("Class", next.cur.text), st |-> css_advance(tk, next)]
                  ELSE [sel |-> NoSelector, st |-> next]
        ELSE IF tok.kind = "Delim" /\ tok.text = <<"*">>
             THEN [sel |-> Simple("Universal", <<>>), st |-> next]
        ELSE [sel |-> NoSelector, st |-> st]

\* the combinator a Delim token stands for in parse_selector
CombinatorOf(tok) ==
    IF tok.kind # "Delim" THEN "Descendant"
    ELSE CASE tok.text = <<">">> -> "Child"
           [] tok.text = <<"+">> -> "Adjacent"
           [] tok.text = <<"~">> -> "GeneralSibling"
           [] OTHER -> "Descendant"

RECURSIVE SelectorLoop(_, _, _)
\* the loop of parse_selector with the operands of a combinator exchanged
SelectorLoop_exchanged(tk, selector, st0) ==
    LET st == css_skip_whitespace(tk, st0)
        kind == CombinatorOf(st.cur)
    IN  IF ~st.ok \/ st.cur.kind \in {"LeftBrace", "Comma", "None"}
        THEN [sel |-> selector, st |-> st]
        ELSE IF kind # "Descendant"
        THEN LET r == parse_simple_selector(tk, css_skip_whitespace(tk, css_advance(tk, st)))
             IN  IF r.sel # NoSelector
                 THEN SelectorLoop(tk, Combinator(kind, r.sel, selector), r.st)
                 ELSE SelectorLoop(tk, selector, r.st)
        ELSE LET r == parse_simple_selector(tk, st)
             IN  IF r.sel # NoSelector
                 THEN SelectorLoop(tk, Combinator("Descendant", r.sel, selector), r.st)
                 ELSE [sel |-> selector, st |-> r.st]

\* the loop of parse_selector combining two simple selectors as Descendant
\* only across whitespace, and ending where none separates them
SelectorLoop_spaced(tk, selector, st0) ==
    LET st == css_skip_whitespace(tk, st0)
        kind == CombinatorOf(st.cur)
    IN  IF ~st.ok \/ st.cur.kind \in {"LeftBrace", "Comma", "None"}
        THEN [sel |-> selector, st |-> st]
        ELSE IF kind # "Descendant"
        THEN LET r == parse_simple_selector(tk, css_skip_whitespace(tk, css_advance(tk, st)))
             IN  IF r.sel # NoSelector
                 THEN SelectorLoop(tk, Combinator(kind, selector, r.sel), r.st)
                 ELSE SelectorLoop(tk, selector, r.st)
        ELSE LET r == parse_simple_selector(tk, st)
             IN  IF r.sel # NoSelector /\ st # st0
                 THEN SelectorLoop(tk, Combinator("Descendant", selector, r.sel), r.st)
                 ELSE [sel |-> selector, st |-> st]

\* the loop of parse_selector, entered with the selector built so far
SelectorLoop(tk, selector, st0) ==
    LET st == css_skip_whitespace(tk, st0)
        kind == CombinatorOf(st.cur)
    IN  IF ~st.ok \/ st.cur.kind \in {"LeftBrace", "Comma", "None"}
        THEN [sel |-> selector, st |-> st]
        ELSE IF kind # "Descendant"
        THEN LET r == parse_simple_selector(tk, css_skip_whitespace(tk, css_advance(tk, st)))
             IN  IF r.sel # NoSelector
                 THEN SelectorLoop(tk, Combinator(kind, selector, r.sel), r.st)
                 ELSE SelectorLoop(tk, selector, r.st)
        ELSE LET r == parse_simple_selector(tk, st)
             IN  IF r.sel # NoSelector
                 THEN SelectorLoop(tk, Combinator("Descendant", selector, r.sel), r.st)
                 ELSE [sel |-> selector, st |-> r.st]

\* parse_selector
parse_selector(tk, st) ==
    LET first == parse_simple_selector(tk, css_skip_whitespace(tk, st))
    IN  IF first.sel = NoSelector THEN first
        ELSE SelectorLoop(tk, first.sel, first.st)

RECURSIVE SelectorsLoop(_, _, _)
\* the loop of parse_selectors with each selector put in front of the others
SelectorsLoop_prepending(tk, sels, st) ==
    LET r == parse_selector(tk, css_skip_whitespace(tk, st))
        after == css_skip_whitespace(tk, r.st)
    IN  IF r.sel = NoSelector THEN [sels |-> sels, st |-> r.st]
        ELSE IF after.ok /\ after.cur.kind = "Comma"
        THEN SelectorsLoop(tk, <<r.sel>> \o sels, css_advance(tk, after))
        ELSE [sels |-> <<r.sel>> \o sels, st |-> after]

\* the loop of parse_selectors, entered with the selectors pushed so far
SelectorsLoop(tk, sels, st) ==
    LET r == parse_selector(tk, css_skip_whitespace(tk, st))
        after == css_skip_whitespace(tk, r.st)
    IN  IF r.sel = NoSelector THEN [sels |-> sels, st |-> r.st]
        ELSE IF after.ok /\ after.cur.kind = "Comma"
        THEN SelectorsLoop(tk, Append(sels, r.sel), css_advance(tk, after))
        ELSE [sels |-> Append(sels, r.sel), st |-> after]

\* parse_selectors without the test selectors.is_empty()
parse_selectors_unchecked(tk, st) ==
    LET r == SelectorsLoop(tk, <<>>, st)
    IN  [some |-> TRUE, sels |-> r.sels, st |-> r.st]

\* parse_selectors: None when selectors.is_empty()
parse_selectors(tk, st) ==
    LET r == SelectorsLoop(tk, <<>>, st)
    IN  [some |-> r.sels # <<>>, sels |-> r.sels, st |-> r.st]

\* token_to_string
token_to_string(tok) ==
    CASE tok.kind = "Ident" -> tok.text
      [] tok.kind = "String" -> <<"\"">> \o tok.text \o <<"\"">>
      [] tok.kind = "Number" -> tok.num
      [] tok.kind = "Dimension" -> tok.num \o tok.text
      [] tok.kind = "Percentage" -> tok.num \o <<"%">>
      [] tok.kind = "Hash" -> <<"#">> \o tok.text
      [] tok.kind = "Delim" -> tok.text
      [] tok.kind = "Url" -> <<"u", "r", "l", "(">> \o tok.text \o <<")">>
      [] OTHER -> <<>>

RECURSIVE Join(_)
\* value_parts.join("")
Join(parts) == IF parts = <<>> THEN <<>> ELSE Head(parts) \o Join(Tail(parts))

RECURSIVE ValueLoop(_, _, _)
\* the value loop of parse_declaration, entered with the parts pushed so far
ValueLoop(tk, value_parts, st) ==
    IF ~st.ok \/ st.cur.kind \in {"Semicolon", "RightBrace", "None"}
    THEN [parts |-> value_parts, st |-> st]
    ELSE IF st.cur.kind = "Whitespace"
    THEN ValueLoop(tk, IF value_parts # <<>> THEN Append(value_parts, <<" ">>)
                      ELSE value_parts,
                   css_advance(tk, st))
    ELSE ValueLoop(tk, Append(value_parts, token_to_string(st.cur)), css_advance(tk, st))

\* parse_declaration: `some` is FALSE for None
parse_declaration(tk, st) ==
    LET none(at) == [some |-> FALSE, property |-> <<>>, value |-> <<>>, st |-> at]
        colon == css_skip_whitespace(tk, css_advance(tk, st))
        r == ValueLoop(tk, <<>>, css_skip_whitespace(tk, css_advance(tk, colon)))
    IN  IF ~st.ok \/ st.cur.kind # "Ident" THEN none(st)
        ELSE IF ~colon.ok \/ colon.cur.kind # "Colon" THEN none(colon)
        ELSE IF ~r.st.ok \/ r.parts = <<>> THEN none(r.st)
        ELSE [some |-> TRUE, property |-> st.cur.text,
              value |-> Trim(Join(r.parts)), st |-> r.st]

\* HashMap<String, String>: a set of entries, one per key
Entry(k, v) == [key |-> k, value |-> v]
MapKeys(m) == {e.key : e \in m}
MapGet(m, k) == (CHOOSE e \in m : e.key = k).value
\* HashMap::insert: overwrites the entry of an existing key
\* an insert that keeps the entry the map already has for the key
MapInsert_keeping(m, k, v) == IF k \in MapKeys(m) THEN m ELSE m \cup {Entry(k, v)}

\* HashMap::insert: the new value replaces the old one
MapInsert(m, k, v) == {e \in m : e.key # k} \cup {Entry(k, v)}

\* Rule
Rule(sels, decls) == [selectors |-> sels, declarations |-> decls]

\* no start tag is being read
NoTag == [tok |-> NoToken, ret |-> "none"]

\* the state of the parser as the variables hold it
CssState == ParserState(position, current_token, TRUE)

\* the variables after a step that leaves the parser in st
CssGoto(st, next_pc) ==
    /\ position' = st.pos
    /\ current_token' = st.cur
    /\ pc' = IF st.ok THEN next_pc ELSE "panic"

\* CssParser::new: primes one token of lookahead
CssNew(s) ==
    LET r == css_next_token(s, 0)
    IN  /\ input = s
        /\ position = r.pos
        /\ current_token = r.tok
        /\ pc = IF r.ok THEN "parse" ELSE "panic"
        /\ rules = <<>>
        /\ selectors = <<>>
        /\ declarations = {}
        /\ span = [before |-> 0, after |-> 0]
        /\ tag = NoTag
        /\ stack = <<>>
        /\ nodes = <<>>

\* parse_rule and the failure branch of parse, with two tokens skipped in that
\* branch
RulePrelude_skipping(tk, r, brace) ==
    IF r.some /\ brace.ok /\ brace.cur.kind = "LeftBrace"
    THEN [some |-> TRUE, sels |-> r.sels, st |-> css_advance(tk, brace)]
    ELSE [some |-> FALSE, sels |-> <<>>,
          st |-> css_advance(tk, css_advance(tk, IF r.some THEN brace ELSE r.st))]

\* parse_rule up to its call of parse_declarations, entered with the result r
\* of parse_selectors and the parser state `brace` after the skip_whitespace
\* that follows; when no rule starts here, parse skips one token (advance)
RulePrelude(tk, r, brace) ==
    IF r.some /\ brace.ok /\ brace.cur.kind = "LeftBrace"
    THEN [some |-> TRUE, sels |-> r.sels, st |-> css_advance(tk, brace)]
    ELSE [some |-> FALSE, sels |-> <<>>,
          st |-> css_advance(tk, IF r.some THEN brace ELSE r.st)]

SelectorsThenBrace(tk, r) == RulePrelude(tk, r, css_skip_whitespace(tk, r.st))

\* parse: skip_whitespace, then parse_rule up to the `{`
parse_rule_prelude(tk, st) ==
    SelectorsThenBrace(tk, parse_selectors(tk, css_skip_whitespace(tk, st)))

\* parse_declarations: the rest of an iteration after parse_declaration
\* returned r (skip the `;` if present)
AfterDeclaration(tk, r) ==
    [exit |-> FALSE, some |-> r.some, property |-> r.property, value |-> r.value,
     st |-> IF r.st.ok /\ r.st.cur.kind = "Semicolon" THEN css_advance(tk, r.st) ELSE r.st]

\* parse_declarations: one iteration, entered after its skip_whitespace; on
\* exit parse_rule consumes the `}` if there is one
DeclarationsIteration(tk, st) ==
    IF ~st.ok \/ st.cur.kind \in {"RightBrace", "None"}
    THEN [exit |-> st.ok, some |-> FALSE, property |-> <<>>, value |-> <<>>,
          st |-> IF st.ok /\ st.cur.kind = "RightBrace" THEN css_advance(tk, st) ELSE st]
    ELSE AfterDeclaration(tk, parse_declaration(tk, st))

\* parse_declarations: one iteration of its loop
parse_declarations_step(tk, st) ==
    DeclarationsIteration(tk, css_skip_whitespace(tk, st))

\* the variables after parse_rule_prelude returned h
CssAfterPrelude(h) ==
    /\ CssGoto(h.st, IF h.some THEN "decls" ELSE "parse")
    /\ selectors' = IF h.some THEN h.sels ELSE selectors
    /\ declarations' = IF h.some THEN {} ELSE declarations

\* the variables after parse_declarations_step returned d
CssAfterDeclarations(d) ==
    /\ CssGoto(d.st, IF d.exit THEN "parse" ELSE "decls")
    /\ rules' = IF d.exit THEN Append(rules, Rule(selectors, declarations)) ELSE rules
    /\ declarations' = IF d.some THEN MapInsert(declarations, d.property, d.value)
                       ELSE declarations

\* parse: one iteration of `while self.current_token.is_some()`, up to the
\* call of parse_declarations inside parse_rule (the rule attempt fails, and
\* one token is skipped, or it reaches the declaration block)
CssParseRule ==
    /\ pc = "parse"
    /\ current_token # NoToken
    /\ CssAfterPrelude(parse_rule_prelude(CssTokens(input), CssState))
    /\ UNCHANGED <<input, rules, span, tag, stack, nodes>>

\* parse_declarations: one iteration of its loop; when the loop exits,
\* parse_rule returns the rule and parse pushes it
CssParseDeclarations ==
    /\ pc = "decls"
    /\ CssAfterDeclarations(parse_declarations_step(CssTokens(input), CssState))
    /\ UNCHANGED <<input, selectors, span, tag, stack, nodes>>

\* parse: the loop ends (current_token is None) and `rules` is returned
CssParseReturn ==
    /\ pc = "parse"
    /\ current_token = NoToken
    /\ pc' = "done"
    /\ UNCHANGED <<input, position, current_token, rules, selectors, declarations,
                   span, tag, stack, nodes>>

CssNext == CssParseRule \/ CssParseDeclarations \/ CssParseReturn

-----------------------------------------------------------------------------
(* HtmlParser (src/src/html/parser.rs).  `stack` holds the parse_element   *)
(* calls that are running, innermost last: each frame is the Element being *)
(* built.  With an empty stack the loop of parse is running.               *)

\* Node
Element(tag_name, attributes, children) ==
    [kind |-> "Element", tag_name |-> tag_name, attributes |-> attributes,
     children |-> children]
TextNode(text) == [kind |-> "Text", text |-> text]
CommentNode(text) == [kind |-> "Comment", text |-> text]

VoidElements ==
    {<<"a", "r", "e", "a">>, <<"b", "a", "s", "e">>, <<"b", "r">>, <<"c", "o", "l">>,
     <<"e", "m", "b", "e", "d">>, <<"h", "r">>, <<"i", "m", "g">>,
     <<"i", "n", "p", "u", "t">>, <<"l", "i", "n", "k">>, <<"m", "e", "t", "a">>,
     <<"p", "a", "r", "a", "m">>, <<"s", "o", "u", "r", "c", "e">>,
     <<"t", "r", "a", "c", "k">>, <<"w", "b", "r">>}

\* is_void_element comparing the name as it is written
is_void_element_exact(name) == name \in VoidElements

\* is_void_element
is_void_element(name) == to_lowercase(name) \in VoidElements

RECURSIVE CollectAttributes_first(_, _)
\* a collect in which the first pair of a name stays
CollectAttributes_first(m, pairs) ==
    IF pairs = <<>> THEN m
    ELSE CollectAttributes_first(IF Head(pairs)[1] \in MapKeys(m) THEN m
                                 ELSE m \cup {Entry(Head(pairs)[1], Head(pairs)[2])},
                                 Tail(pairs))

RECURSIVE CollectAttributes(_, _)
\* attributes.iter().map(..).collect::<HashMap<_, _>>(): later pairs overwrite
CollectAttributes(m, pairs) ==
    IF pairs = <<>> THEN m
    ELSE CollectAttributes(MapInsert(m, Head(pairs)[1], Head(pairs)[2]), Tail(pairs))

\* nodes.push(node) in parse, element.children.push(node) in parse_element
Pushed(frames, roots, node) ==
    IF frames = <<>>
    THEN [stack |-> frames, nodes |-> Append(roots, node)]
    ELSE [stack |-> [frames EXCEPT ![Len(frames)].children = Append(@, node)],
          nodes |-> roots]

\* parse_element returns its element to the caller, which pushes it
Returned_element(frames, roots) ==
    Pushed(SubSeq(frames, 1, Len(frames) - 1), roots, frames[Len(frames)])

\* the iteration with every end tag closing the open element
Dispatched_closing(frames, roots, tok) ==
    CASE tok.kind = "StartTag" ->
            IF tok.self_closing \/ is_void_element(tok.text)
            THEN Pushed(frames, roots,
                        Element(tok.text, CollectAttributes({}, tok.attributes), <<>>))
            ELSE [stack |-> Append(frames, Element(tok.text,
                                       CollectAttributes({}, tok.attributes), <<>>)),
                  nodes |-> roots]
      [] tok.kind = "Text" ->
            IF Trim(tok.text) # <<>> THEN Pushed(frames, roots, TextNode(tok.text))
            ELSE [stack |-> frames, nodes |-> roots]
      [] tok.kind = "Comment" -> Pushed(frames, roots, CommentNode(tok.text))
      [] tok.kind = "EndTag" -> Returned_element(frames, roots)
      [] OTHER -> [stack |-> frames, nodes |-> roots]

\* the iteration with a doctype kept as a text node
Dispatched_doctype(frames, roots, tok) ==
    CASE tok.kind = "StartTag" ->
            IF tok.self_closing \/ is_void_element(tok.text)
            THEN Pushed(frames, roots,
                        Element(tok.text, CollectAttributes({}, tok.attributes), <<>>))
            ELSE [stack |-> Append(frames, Element(tok.text,
                                       CollectAttributes({}, tok.attributes), <<>>)),
                  nodes |-> roots]
      [] tok.kind = "Text" ->
            IF Trim(tok.text) # <<>> THEN Pushed(frames, roots, TextNode(tok.text))
            ELSE [stack |-> frames, nodes |-> roots]
      [] tok.kind = "Comment" -> Pushed(frames, roots, CommentNode(tok.text))
      [] tok.kind = "EndTag" ->
            IF tok.text = frames[Len(frames)].tag_name
            THEN Returned_element(frames, roots)
            ELSE Pushed(frames, roots, TextNode(<<"<", "/">> \o tok.text \o <<">">>))
      [] OTHER -> Pushed(frames, roots, TextNode(tok.text))

\* the iteration with end-tag names compared without regard to letter case
Dispatched_caseless(frames, roots, tok) ==
    CASE tok.kind = "StartTag" ->
            IF tok.self_closing \/ is_void_element(tok.text)
            THEN Pushed(frames, roots,
                        Element(tok.text, CollectAttributes({}, tok.attributes), <<>>))
            ELSE [stack |-> Append(frames, Element(tok.text,
                                       CollectAttributes({}, tok.attributes), <<>>)),
                  nodes |-> roots]
      [] tok.kind = "Text" ->
            IF Trim(tok.text) # <<>> THEN Pushed(frames, roots, TextNode(tok.text))
            ELSE [stack |-> frames, nodes |-> roots]
      [] tok.kind = "Comment" -> Pushed(frames, roots, CommentNode(tok.text))
      [] tok.kind = "EndTag" ->
            IF to_lowercase(tok.text) = to_lowercase(frames[Len(frames)].tag_name)
            THEN Returned_element(frames, roots)
            ELSE Pushed(frames, roots, TextNode(<<"<", "/">> \o tok.text \o <<">">>))
      [] OTHER -> [stack |-> frames, nodes |-> roots]

\* what one iteration of the loop of parse / parse_element does to the tree
\* with the token `tok`, before the advance that ends the iteration
Dispatched(frames, roots, tok) ==
    CASE tok.kind = "StartTag" ->
            IF tok.self_closing \/ is_void_element(tok.text)
            THEN Pushed(frames, roots,
                        Element(tok.text, CollectAttributes({}, tok.attributes), <<>>))
            ELSE [stack |-> Append(frames, Element(tok.text,
                                       CollectAttributes({}, tok.attributes), <<>>)),
                  nodes |-> roots]
      [] tok.kind = "Text" ->
            IF Trim(tok.text) # <<>> THEN Pushed(frames, roots, TextNode(tok.text))
            ELSE [stack |-> frames, nodes |-> roots]
      [] tok.kind = "Comment" -> Pushed(frames, roots, CommentNode(tok.text))
      [] tok.kind = "EndTag" ->
            IF tok.text = frames[Len(frames)].tag_name
            THEN Returned_element(frames, roots)
            ELSE Pushed(frames, roots, TextNode(<<"<", "/">> \o tok.text \o <<">">>))
      [] OTHER -> [stack |-> frames, nodes |-> roots]

\* the variables after a next_token call started at `position` came to r
\* (returned, panicked, or reached the attribute loop); ret is where the
\* caller goes on once the token is there
HtmlBegin(r, ret) ==
    /\ position' = r.pos
    /\ span' = [before |-> position, after |-> r.pos]
    /\ current_token' = IF r.ok /\ ~r.open THEN r.tok ELSE current_token
    /\ tag' = IF r.ok /\ r.open THEN [tok |-> r.tok, ret |-> ret] ELSE NoTag
    /\ pc' = IF ~r.ok THEN "panic"
             ELSE IF r.open THEN "attrs"
             ELSE IF ret = "html_tok" /\ r.tok = NoToken THEN "done"
             ELSE ret

\* the variables after an iteration of the attribute loop came to r
HtmlAfterAttribute(r) ==
    /\ position' = r.pos
    /\ span' = [span EXCEPT !.after = r.pos]
    /\ current_token' = IF r.ok /\ r.break THEN r.tok ELSE current_token
    /\ tag' = IF r.ok /\ ~r.break THEN [tag EXCEPT !.tok = r.tok] ELSE NoTag
    /\ pc' = IF ~r.ok THEN "panic" ELSE IF r.break THEN tag.ret ELSE "attrs"

\* parse_tag_or_comment: one iteration of the attribute loop of a start tag
HtmlAttributeLoop ==
    /\ pc = "attrs"
    /\ HtmlAfterAttribute(attribute_loop(input, tag.tok, position))
    /\ UNCHANGED <<input, rules, selectors, declarations, stack, nodes>>

\* the variables after the tree came to d
HtmlAfterDispatch(d) ==
    /\ stack' = d.stack
    /\ nodes' = d.nodes

HtmlStart(s, at) ==
    /\ input = s
    /\ position = 0
    /\ current_token = NoToken
    /\ pc = at
    /\ rules = <<>>
    /\ selectors = <<>>
    /\ declarations = {}
    /\ span = [before |-> 0, after |-> 0]
    /\ tag = NoTag
    /\ stack = <<>>
    /\ nodes = <<>>

\* HtmlParser::new: primes one token of lookahead
HtmlParserNew ==
    /\ pc = "new"
    /\ HtmlBegin(html_next_token(input, position), "parse")
    /\ UNCHANGED <<input, rules, selectors, declarations, stack, nodes>>

\* one iteration of `while let Some(token) = self.current_token.clone()` in
\* parse (empty stack) or in the innermost parse_element, ending with advance
HtmlParseToken ==
    /\ pc = "parse"
    /\ current_token # NoToken
    /\ ~(stack = <<>> /\ current_token.kind = "EndTag")
    /\ HtmlAfterDispatch(Dispatched(stack, nodes, current_token))
    /\ HtmlBegin(html_next_token(input, position), "parse")
    /\ UNCHANGED <<input, rules, selectors, declarations>>

\* parse_element returning at the end of input with its element dropped
HtmlElementReturn_dropping ==
    /\ pc = "parse"
    /\ current_token = NoToken
    /\ stack # <<>>
    /\ stack' = SubSeq(stack, 1, Len(stack) - 1)
    /\ UNCHANGED <<input, position, current_token, pc, rules, selectors, declarations,
                   span, tag, nodes>>

\* parse_element: the loop ends at the end of input and the element is
\* returned to the caller
HtmlElementReturn ==
    /\ pc = "parse"
    /\ current_token = NoToken
    /\ stack # <<>>
    /\ HtmlAfterDispatch(Returned_element(stack, nodes))
    /\ UNCHANGED <<input, position, current_token, pc, rules, selectors, declarations,
                   span, tag>>

\* parse returning at the end of input only, an end tag at root level being
\* skipped like a doctype
HtmlParseReturn_skipping ==
    /\ pc = "parse"
    /\ stack = <<>>
    /\ \/ /\ current_token = NoToken
          /\ pc' = "done"
          /\ UNCHANGED <<position, current_token, span, tag>>
       \/ /\ current_token.kind = "EndTag"
          /\ HtmlBegin(html_next_token(input, position), "parse")
    /\ UNCHANGED <<input, rules, selectors, declarations, stack, nodes>>

\* parse: the loop ends (end of input, or an end tag at root level) and
\* `nodes` is returned
HtmlParseReturn ==
    /\ pc = "parse"
    /\ stack = <<>>
    /\ current_token = NoToken \/ current_token.kind = "EndTag"
    /\ pc' = "done"
    /\ UNCHANGED <<input, position, current_token, rules, selectors, declarations,
                   span, tag, stack, nodes>>

HtmlNext ==
    \/ HtmlParserNew
    \/ HtmlParseToken
    \/ HtmlElementReturn
    \/ HtmlParseReturn
    \/ HtmlAttributeLoop

-----------------------------------------------------------------------------
(* The tokenizers on their own: next_token is called until it returns None *)
(* (the Iterator implementations).                                         *)

\* the variables after CssTokenizer::next_token returned r
CssAfterToken(r) ==
    /\ position' = r.pos
    /\ span' = [before |-> position, after |-> r.pos]
    /\ current_token' = r.tok
    /\ pc' = IF ~r.ok THEN "panic" ELSE IF r.tok = NoToken THEN "done" ELSE "css_tok"

\* CssTokenizer::next
CssTokenize ==
    /\ pc = "css_tok"
    /\ CssAfterToken(css_next_token(input, position))
    /\ UNCHANGED <<input, rules, selectors, declarations, tag, stack, nodes>>

\* HtmlTokenizer::next
HtmlTokenize ==
    /\ pc = "html_tok"
    /\ HtmlBegin(html_next_token(input, position), "html_tok")
    /\ UNCHANGED <<input, rules, selectors, declarations, stack, nodes>>

TokNext == CssTokenize \/ HtmlTokenize \/ HtmlAttributeLoop

-----------------------------------------------------------------------------
(* The inputs of the CSS parser: every string over a small alphabet, and   *)
(* families of longer stylesheets built from selector, declaration and     *)
(* value texts.                                                            *)

\* all strings over `alphabet` of length at most n
Strings(alphabet, n) == UNION {[1..k -> alphabet] : k \in 0..n}

RECURSIVE PieceStrings(_, _)
\* the concatenations of at most n pieces
PieceStrings(pieces, n) ==
    IF n = 0 THEN {<<>>}
    ELSE PieceStrings(pieces, n - 1)
         \cup {x \o y : x \in PieceStrings(pieces, n - 1), y \in pieces}

CssAlphabet == {"a", " ", "{", "}", ":", ";", ",", ">", "."}

GenericInputs == Strings(CssAlphabet, MaxLen)

\* Source texts of simple selectors, each with the selector it denotes.
SimpleShapes ==
    {[text |-> <<"a">>, sel |-> Simple("Type", <<"a">>)],
     [text |-> <<"b">>, sel |-> Simple("Type", <<"b">>)],
     [text |-> <<".", "a">>, sel |-> Simple("Class", <<"a">>)],
     [text |-> <<"*">>, sel |-> Simple("Universal", <<>>)]}

IdShape == [text |-> <<"#", "a">>, sel |-> Simple("Id", <<"a">>)]

\* Source texts of combinators, each with the combinator it denotes.
CombinatorShapes ==
    {[text |-> <<" ">>, kind |-> "Descendant"],
     [text |-> <<">">>, kind |-> "Child"],
     [text |-> <<"+">>, kind |-> "Adjacent"],
     [text |-> <<"~">>, kind |-> "GeneralSibling"],
     [text |-> <<" ", ">", " ">>, kind |-> "Child"]}

RECURSIVE ChainShapes(_)
\* s1 c1 s2 ... sn: n simple selectors joined by combinators, each chain with
\* the selector c(n-1)(...c2(c1(s1, s2), s3)..., sn); no two chains have the
\* same text
ChainShapes(n) ==
    IF n <= 1 THEN SimpleShapes
    ELSE {[text |-> c.text \o k.text \o x.text, sel |-> Combinator(k.kind, c.sel, x.sel)] :
            c \in ChainShapes(n - 1), k \in CombinatorShapes, x \in SimpleShapes}

Chains == UNION {ChainShapes(n) : n \in 1..MaxSimple}

\* the selectors a list of selectors is made of
ListItems ==
    SimpleShapes \cup {IdShape} \cup
    {c \in ChainShapes(2) : c.text \in {<<"a", ">", "b">>, <<"a", " ", ".", "a">>}}

RECURSIVE ListShapes(_)
\* n selectors separated by commas, each list with its selectors in source
\* order; no two lists have the same text
ListShapes(n) ==
    IF n <= 1 THEN {[text |-> x.text, sels |-> <<x.sel>>] : x \in ListItems}
    ELSE {[text |-> l.text \o k \o x.text, sels |-> Append(l.sels, x.sel)] :
            l \in ListShapes(n - 1), k \in {<<",">>, <<",", " ">>}, x \in ListItems}

Lists == UNION {ListShapes(n) : n \in 1..MaxSelectors}

\* a rule prelude followed by `{`
ChainInputs == {c.text \o <<"{">> : c \in Chains}
ListInputs == {l.text \o <<"{">> : l \in Lists}
SelectorInputs == ChainInputs \cup ListInputs

\* one declaration `p:v;`; it is malformed when the value is missing
DeclarationShapes ==
    {[text |-> <<q>> \o <<":">> \o v \o <<";">>, property |-> <<q>>, value |-> v] :
        q \in {"a", "b"}, v \in {<<>>, <<"a">>, <<"b">>}}

RECURSIVE BlockShapes(_)
\* at most n declarations, each block with its declarations in source order
BlockShapes(n) ==
    IF n = 0 THEN {[text |-> <<>>, decls |-> <<>>]}
    ELSE BlockShapes(n - 1) \cup
         {[text |-> b.text \o d.text, decls |-> Append(b.decls, d)] :
            b \in BlockShapes(n - 1), d \in DeclarationShapes}

Blocks == BlockShapes(MaxDecls)

\* a rule `a{...` with a block of declarations, closed or not
DeclarationInputs ==
    {<<"a", "{">> \o b.text \o e : b \in Blocks, e \in {<<>>, <<"}">>}}

ValueAlphabet == {"a", " ", "(", ",", "0", "1", "."}

\* a rule `a{a:v` with one declaration, ended by the end of input
ValueInputs == {<<"a", "{", "a", ":">> \o v : v \in Strings(ValueAlphabet, MaxValueLen)}

\* Source texts of well-formed rules, each with the rule it denotes.
RuleShapes ==
    {[text |-> <<"a", "{", "}">>, rule |-> Rule(<<Simple("Type", <<"a">>)>>, {})],
     [text |-> <<".", "b", "{", "a", ":", "b", "}">>,
      rule |-> Rule(<<Simple("Class", <<"b">>)>>, {Entry(<<"a">>, <<"b">>)})]}

\* what stands between two rules: whitespace, a comment, a comment with a
\* character of two bytes
RuleSeparators ==
    {<<" ">>, <<"/", "*", "c", "*", "/">>, <<"/", "*", Wide, "a", "*", "/">>}

RECURSIVE RuleSeqShapes(_)
\* n rules with a separator between each two, each text with its rules in
\* source order; no two have the same text
RuleSeqShapes(n) ==
    IF n <= 1 THEN {[text |-> r.text, rules |-> <<r.rule>>] : r \in RuleShapes}
    ELSE {[text |-> q.text \o k \o r.text, rules |-> Append(q.rules, r.rule)] :
            q \in RuleSeqShapes(n - 1), k \in RuleSeparators, r \in RuleShapes}

RuleSeqs == UNION {RuleSeqShapes(n) : n \in 1..MaxRules}

RuleSeqInputs == {q.text : q \in RuleSeqs}

\* texts a value is made of: identifiers, whitespace, and a comment and a
\* structural token with whitespace on both sides
ValuePieces ==
    {<<"a">>, <<"b">>, <<" ">>, <<" ", "/", "*", "c", "*", "/", " ">>, <<" ", "(", " ">>}

\* a rule `a{a:v` whose value is made of these pieces, ended by the end of
\* input, `;` or `}`
SpacedValueInputs ==
    {<<"a", "{", "a", ":">> \o v \o e :
        v \in PieceStrings(ValuePieces, MaxPieces), e \in {<<>>, <<";">>, <<"}">>}}

\* the simple selectors of the claims' examples
DivShape == [text |-> <<"d", "i", "v">>, sel |-> Simple("Type", <<"d", "i", "v">>)]

\* two simple selector texts that can stand side by side and still be read as
\* two: the right one begins with `.`, `#` or `*`, or the text on the left
\* ends with `*`
SideBySide(left, right) ==
    Head(right) \in {".", "#", "*"} \/ left[Len(left)] = "*"

RECURSIVE JuxtaposedShapes(_)
\* n simple selectors with nothing or a space between one and the next, each
\* text with the selector Descendant(...Descendant(s1, s2)..., sn)
JuxtaposedShapes(n) ==
    IF n <= 1 THEN SimpleShapes \cup {IdShape, DivShape}
    ELSE {[text |-> j[1].text \o j[2] \o j[3].text,
           sel |-> Combinator("Descendant", j[1].sel, j[3].sel)] :
            j \in {k \in JuxtaposedShapes(n - 1) \X {<<>>, <<" ">>}
                              \X (SimpleShapes \cup {IdShape}) :
                     k[2] = <<>> => SideBySide(k[1].text, k[3].text)}}

Juxtaposed == UNION {JuxtaposedShapes(n) : n \in 2..MaxSimple}

JuxtaposedInputs == {j.text \o <<"{">> : j \in Juxtaposed}

\* preludes in which a combinator is followed by no simple selector: by `{`,
\* the end of input, a comma, a colon, another combinator, or a `.` with no
\* identifier after it; and what may come after that
DanglingInputs ==
    {<<"a">> \o c \o j \o r :
        c \in {<<">">>, <<"+">>, <<"~">>, <<" ", ">", " ">>},
        j \in {<<>>, <<".">>, <<".", " ">>, <<">">>, <<":">>},
        r \in {<<>>, <<"{">>, <<",", "a", "{">>, <<"a", "{">>, <<">", "a", "{">>}}
    \cup {<<"d", "i", "v", " ", ">", " ", "{">>}

CssInputs ==
    GenericInputs \cup SelectorInputs \cup DeclarationInputs \cup ValueInputs
    \cup RuleSeqInputs \cup SpacedValueInputs \cup JuxtaposedInputs \cup DanglingInputs

Init == \E s \in CssInputs : CssNew(s)

Next == CssNext

Spec == Init /\ [][Next]_vars

-----------------------------------------------------------------------------
(* The inputs of the HTML parser and of the two tokenizers.                *)

HtmlAlphabet == {"a", " ", "<", ">", "/", "=", "\"", "!", "-"}

\* texts that make up longer documents
HtmlPieces ==
    {<<"<", "a", ">">>, <<"<", "b", ">">>, <<"<", "/", "a", ">">>, <<"<", "/", "b", ">">>,
     <<"<", "b", "r", ">">>, <<"<", "B", "r", ">">>, <<"<", "a", "/", ">">>, <<"x">>, <<" ">>,
     <<"<", "!", "-", "-", "c", "-", "-", ">">>,
     <<"<", "!", "D", "o", "c", "t", "y", "p", "e", ">">>,
     <<"<", "a", " ", "c", " ", "b", "=", "c", " ", "b", "=", "'", "d", "'", ">">>}

\* end tags whose name is the open element's name in another letter case
CaseInputs ==
    {<<"<", "a", ">", "<", "/", "A", ">", "x", "<", "/", "a", ">">>,
     <<"<", "A", ">", "<", "/", "a", ">", "<", "/", "A", ">", "x">>,
     <<"<", "a", ">", "<", "b", ">", "<", "/", "B", ">", "<", "/", "b", ">", "x", "<", "/", "a", ">">>,
     <<"<", "A", "b", ">", "x", "<", "/", "a", "B", ">", "<", "/", "A", "b", ">">>}

\* documents with a character of two bytes at the start, after which the
\* tokenizer cuts its tokens one byte early: the text before `y` reaches the
\* parser as a Text token of one space, inside an element and at root level
ShiftedInputs ==
    {<<Wide, "x", "<", "b", ">", " ", "y">>,
     <<Wide, "x", "<", "b", "/", ">", " ", "y">>}

HtmlInputs ==
    Strings(HtmlAlphabet, MaxLen) \cup PieceStrings(HtmlPieces, MaxPieces)
    \cup CaseInputs \cup ShiftedInputs

HtmlInit == \E s \in HtmlInputs : HtmlStart(s, "new")

HtmlSpec == HtmlInit /\ [][HtmlNext]_vars

\* the tokenizers read any text: also characters of more than one byte
CssTokAlphabet == {"a", Wide, " ", FormFeed, "#", "1", ".", "-", "'", "/", "*"}
HtmlTokAlphabet == {"a", Wide, " ", "<", ">", "/", "=", "\"", "!", "-"}

\* quoted strings with escapes: both quotes, the backslash, a letter and a
\* character of two bytes
StringAlphabet == {"'", "\"", "\\", "a", Wide}
StringInputs == Strings(StringAlphabet, MaxTokLen + 1)

\* url( literals: unquoted and quoted bodies, closed or not, with text after
\* the closing quote; and identifiers that are not `url` or have no `(`
\* right after them
UrlBodies ==
    PieceStrings({<<"a">>, <<" ">>, <<")">>, <<"'">>, <<"'", "a", "'">>, <<Wide>>}, MaxTokLen)
UrlInputs ==
    {<<"u", "r", "l", "(">> \o b : b \in UrlBodies}
    \cup {<<"U", "r", "l", "(", "a", ")">>, <<"u", "r", "l", " ", "(", "a", ")">>,
          <<"u", "r", "l", "s", "(", "a", ")">>, <<"-", "u", "r", "l", "(", "a", ")">>,
          <<"u", "r", "l", "(", "\"", "a", ")", "\"", " ", ")", "a">>}

CssTokInputs ==
    Strings(CssTokAlphabet, MaxTokLen)
    \cup StringInputs
    \cup UrlInputs
    \cup PieceStrings({<<"u", "r", "l", "(">>, <<"a">>, <<" ">>, <<")">>, <<"'">>, <<Wide>>},
                      MaxTokPieces + 1)

\* Source texts of attributes, each with the (name, value) pair it denotes:
\* no `=`, an unquoted value, quoted values, whitespace around `=`.
AttributeShapes ==
    {[text |-> <<"b">>, pair |-> <<(<<"b">>), <<>> >>],
     [text |-> <<"b", "=", "c">>, pair |-> <<(<<"b">>), <<"c">> >>],
     [text |-> <<"b", "=", "'", "d", "'">>, pair |-> <<(<<"b">>), <<"d">> >>],
     [text |-> <<"c", "=", "\"", "c", " ", "d", "\"">>, pair |-> <<(<<"c">>), <<"c", " ", "d">> >>],
     [text |-> <<"c", " ", "=", " ", "d">>, pair |-> <<(<<"c">>), <<"d">> >>],
     [text |-> <<"b", "=", Wide, "c">>, pair |-> <<(<<"b">>), <<Wide, "c">> >>]}

RECURSIVE TagShapes(_)
\* `<a` followed by at most n attributes, each after a space; each tag with
\* the pairs of its attributes in source order; no two have the same text
TagShapes(n) ==
    IF n = 0 THEN {[text |-> <<"<", "a">>, pairs |-> <<>>]}
    ELSE TagShapes(n - 1) \cup
         {[text |-> g.text \o <<" ">> \o a.text, pairs |-> Append(g.pairs, a.pair)] :
            g \in TagShapes(n - 1), a \in AttributeShapes}

TagEnds == {<<">">>, <<"/", ">">>, <<" ", ">">>}

\* the start tags, closed in each way
Tags ==
    {[text |-> g.text \o e, pairs |-> g.pairs] : g \in TagShapes(MaxAttrs), e \in TagEnds}

AttributeInputs == {g.text : g \in Tags}

\* doctypes: the prefix in several cases, content after it, a missing `>`,
\* text after the `>`, a character of two bytes in the content
DoctypeInputs ==
    {<<"<", "!", "d", "o", "c", "t", "y", "p", "e", ">">>,
     <<"<", "!", "D", "O", "C", "T", "Y", "P", "E", " ", "a", ">", "x">>,
     <<" ", "<", "!", "d", "O", "c", "T", "y", "p", "e", " ", "a">>,
     <<"<", "!", "d", "o", "c", "t", "y", "p", "e", " ", Wide, "a", ">">>}

\* constructs that the input ends in the middle of: comments (also closed
\* ones, with `-` and `>` in the content), end tags, start tags, quoted
\* attribute values
UnterminatedInputs ==
    {<<"<", "!", "-", "-", "a">>,
     <<"<", "!", "-", "-", "a", "-", "-">>,
     <<"<", "!", "-", "-", ">">>,
     <<"<", "!", "-", "-", "-", ">">>,
     <<"<", "!", "-", "-", "a", ">", "-", "-", ">", "b", "-", "-", ">">>,
     <<"<", "!", "-", "-", Wide, "-", "-", ">">>,
     <<"<", "/", "a">>,
     <<"<", "/", "a", " ", "b">>,
     <<"<", "a", " ", "b">>,
     <<"<", "a", " ", "b", "=">>,
     <<"<", "a", " ", "b", "=", "\"", "c">>,
     <<"<", "a", " ", "b", "=", "'", "c", ">", "d">>,
     <<"<", "a", " ", "b", " ", "=", " ", "\"", "c", " ", "d">>,
     <<"<", "a", " ", "b", "=", "\"", Wide>>}

\* start tags with a `/` in them: before the `>`, before other characters,
\* next to attributes, inside values, after a character of two bytes
SlashInputs ==
    {<<"<", "a", "/", " ", "/", ">">>,
     <<"<", "a", "/", " ", ">">>,
     <<"<", "a", "/", "/", ">", "x">>,
     <<"<", "a", " ", "/", " ", "b", "/", ">">>,
     <<"<", "a", " ", "b", "=", "c", "/", "d", ">">>,
     <<"<", "a", " ", "b", "=", "/", ">">>,
     <<"<", "a", " ", "b", "=", "\"", "/", ">", "\"", ">">>,
     <<"<", "a", " ", "b", "=", "\"", "c", "/", ">">>,
     <<"<", "a", " ", Wide, "/", ">">>,
     <<"<", "a", "/", Wide, "/", ">">>}

HtmlTokInputs ==
    Strings(HtmlTokAlphabet, MaxTokLen)
    \cup SlashInputs
    \cup PieceStrings(HtmlPieces \cup {<<Wide>>}, MaxTokPieces)
    \cup AttributeInputs
    \cup DoctypeInputs
    \cup UnterminatedInputs

TokInit ==
    \/ \E s \in CssTokInputs : HtmlStart(s, "css_tok")
    \/ \E s \in HtmlTokInputs : HtmlStart(s, "html_tok")

TokSpec == TokInit /\ [][TokNext]_vars

-----------------------------------------------------------------------------
(* The CSS claims.                                                         *)

\* a loop iteration that leaves the parser in st has moved the cursor forward,
\* or has reached the end of the input (the loops exit on None)
CursorMoved(st) == ~st.ok \/ st.pos > position \/ st.cur = NoToken

DeclarationLoopMoved(d) == d.exit \/ CursorMoved(d.st)

\* C1: for every input, CssParser::parse terminates: every iteration of the
\* top-level loop and of the declaration loop exits the loop or consumes
\* input, so each loop reaches its exit after finitely many steps.  (The
\* cursor never exceeds the input length; an iteration that neither exits nor
\* moves the cursor leaves the parser in the state it started from, and the
\* loop runs forever.)
C1_CssParseTerminates ==
    /\ pc = "parse" /\ current_token # NoToken
          => CursorMoved(parse_rule_prelude(CssTokens(input), CssState).st)
    /\ pc = "decls"
          => DeclarationLoopMoved(parse_declarations_step(CssTokens(input), CssState))

\* C5: every Rule that parse returns has a non-empty selector list (and so
\* has the rule whose declaration block is being read).
C5_RulesHaveSelectors ==
    /\ \A i \in 1..Len(rules) : rules[i].selectors # <<>>
    /\ pc = "decls" => selectors # <<>>

\* a rule was returned for an input that also has a `{` with no selector
\* before it
C5_Witness == pc = "done" /\ rules # <<>> /\ Head(input) = "{"

-----------------------------------------------------------------------------
(* The HTML claims.                                                        *)

AttributeLoopMoved(r) == ~r.ok \/ r.break \/ r.pos > position

TokenConsumed(r) == ~r.ok \/ r.open \/ r.pos > position \/ r.tok = NoToken

\* C2: for every finite input, HtmlParser::new(input).parse() terminates:
\* every next_token call returns after finitely many steps (every iteration
\* of the attribute loop of a start tag ends the loop or moves the cursor
\* forward) and every iteration of a parser loop consumes a token.
C2_HtmlParseTerminates ==
    /\ pc = "attrs" => AttributeLoopMoved(attribute_loop(input, tag.tok, position))
    /\ pc = "parse" /\ current_token # NoToken
          => TokenConsumed(html_next_token(input, position))

-----------------------------------------------------------------------------
(* The claims about the two tokenizers.                                    *)

\* C3: no tokenizer step crashes: every slice is taken within the input and
\* on character boundaries, also for input with characters of several bytes.
C3_NoSliceCrash == pc # "panic"

\* the string fields of a token
TokenStrings(tok) ==
    IF tok.kind = "StartTag"
    THEN {tok.text} \cup {tok.attributes[i][1] : i \in 1..Len(tok.attributes)}
                    \cup {tok.attributes[i][2] : i \in 1..Len(tok.attributes)}
    ELSE IF tok.kind \in {"Ident", "String", "Hash", "Comment", "AtKeyword", "Url",
                          "Dimension", "EndTag", "Text", "Doctype"}
    THEN {tok.text}
    ELSE {}

\* x is a contiguous substring of the input between byte offsets lo and hi
WithinSpan(x, lo, hi) ==
    \E a \in lo..hi :
        LET b == a + ByteLen(x)
        IN  b <= hi /\ SliceOk(input, a, b) /\ Slice(input, a, b) = x

\* C4: every string field of an emitted token is a contiguous substring of
\* the input inside the span consumed by the next_token call that emitted it
\* (also the fields read so far of a start tag that is still being read), and
\* the spans of successive calls do not overlap: a call starts where the call
\* before it ended, and ends no earlier than it starts.
C4_TokenTextWithinSpan ==
    /\ span.before <= span.after /\ span.after = position
    /\ \A x \in TokenStrings(IF pc = "attrs" THEN tag.tok ELSE current_token) :
          pc # "panic" => WithinSpan(x, span.before, span.after)

\* a start tag with an attribute value was emitted after an earlier token
C4_Witness ==
    /\ pc = "html_tok" /\ span.before > 0
    /\ current_token.kind = "StartTag"
    /\ \E i \in 1..Len(current_token.attributes) : current_token.attributes[i][2] # <<>>

\* the text before the `{` that ends the input
Prelude == SubSeq(input, 1, Len(input) - 1)

\* C6: parse_selector builds combinators left-associatively in the order
\* encountered: the prelude s1 c1 s2 ... c(n-1) sn (whitespace = Descendant,
\* `>` = Child, `+` = Adjacent, `~` = GeneralSibling) gives the one selector
\* c(n-1)(...c2(c1(s1, s2), s3)..., sn).
C6_LeftAssociative ==
    pc = "done" /\ input \in ChainInputs
        => /\ Len(rules) = 1
           /\ Len(rules[1].selectors) = 1
           /\ [text |-> Prelude, sel |-> rules[1].selectors[1]] \in Chains

\* a chain of three simple selectors with two different combinators was parsed
C6_Witness ==
    /\ pc = "done" /\ Len(rules) = 1 /\ Len(rules[1].selectors) = 1
    /\ LET s == rules[1].selectors[1]
       IN  /\ s.kind = "Child"
           /\ s.left.kind = "Descendant"
           /\ s.right.kind = "Type"

\* the token after the current one
TokenAfter == CssTokens(input)[position]

\* parse_simple_selector consumed n tokens: it left the parser at the n-th
\* token after the current one
Consumed(r, n) ==
    LET one == css_advance(CssTokens(input), CssState)
        two == css_advance(CssTokens(input), one)
    IN  r.st = (CASE n = 0 -> CssState [] n = 1 -> one [] n = 2 -> two)

SimpleSelectorTable(r) ==
    LET tok == current_token
    IN  CASE tok.kind = "Ident" -> r.sel = Simple("Type", tok.text) /\ Consumed(r, 1)
          [] tok.kind = "Hash" -> r.sel = Simple("Id", tok.text) /\ Consumed(r, 1)
          [] tok = Token("Delim", <<".">>, <<>>) /\ TokenAfter.ok /\ TokenAfter.tok.kind = "Ident"
                -> r.sel = Simple("Class", TokenAfter.tok.text) /\ Consumed(r, 2)
          [] tok = Token("Delim", <<"*">>, <<>>)
                -> r.sel = Simple("Universal", <<>>) /\ Consumed(r, 1)
          [] OTHER -> r.sel = NoSelector /\ Consumed(r, 0)

\* C7: parse_simple_selector maps the current token(s) to a simple selector
\* exactly as follows: Ident(n) -> Type(n); Hash(n) -> Id(n); Delim('.')
\* immediately followed by Ident(n) -> Class(n); Delim('*') -> Universal; any
\* other token -> no selector, and no token is consumed in that last case.
C7_SimpleSelectorTable ==
    pc \in {"parse", "decls"} /\ TokenAfter.ok
        => SimpleSelectorTable(parse_simple_selector(CssTokens(input), CssState))

\* C8: a rule whose prelude is n >= 1 selectors separated by commas yields one
\* Rule whose selector list has exactly these n selectors, in source order.
C8_SelectorListInOrder ==
    pc = "done" /\ input \in ListInputs
        => /\ Len(rules) = 1
           /\ [text |-> Prelude, sels |-> rules[1].selectors] \in Lists

\* a list of as many different selectors as the bound allows was parsed
C8_Witness ==
    /\ pc = "done" /\ Len(rules) = 1
    /\ Len(rules[1].selectors) = MaxSelectors
    /\ Cardinality({rules[1].selectors[i] : i \in 1..MaxSelectors}) = MaxSelectors

\* the entries a block of declarations leaves in the map: for each property,
\* the value of its last well-formed occurrence
LastWellFormed(decls) ==
    {Entry(decls[i].property, decls[i].value) :
        i \in {j \in 1..Len(decls) :
                 /\ decls[j].value # <<>>
                 /\ \A k \in (j + 1)..Len(decls) :
                       decls[k].property = decls[j].property => decls[k].value = <<>>}}

\* C9: within one rule's declaration block the map holds exactly one entry per
\* property name declared, carrying the value of the last well-formed
\* occurrence; n distinct well-formed declarations give a map of size n.
C9_LastDeclarationWins ==
    pc = "done" /\ input \in DeclarationInputs
        => \A b \in Blocks : \A e \in {<<>>, <<"}">>} :
              input = <<"a", "{">> \o b.text \o e
                  => /\ rules = <<Rule(<<Simple("Type", <<"a">>)>>, LastWellFormed(b.decls))>>
                     /\ Cardinality(rules[1].declarations)
                          = Cardinality({b.decls[i].property :
                                           i \in {j \in 1..Len(b.decls) : b.decls[j].value # <<>>}})

\* a property was declared twice with different values, next to another one
C9_Witness ==
    /\ pc = "done" /\ Len(rules) = 1
    /\ input = <<"a", "{", "a", ":", "a", ";", "b", ":", "a", ";", "a", ":", "b", ";">>
    /\ rules[1].declarations = {Entry(<<"a">>, <<"b">>), Entry(<<"b">>, <<"a">>)}

RECURSIVE CollapseWhitespace(_)
\* each whitespace run replaced by one space
CollapseWhitespace(s) ==
    IF s = <<>> THEN <<>>
    ELSE IF Head(s) \in WhitespaceChars
    THEN <<" ">> \o CollapseWhitespace(TrimStart(s))
    ELSE <<Head(s)>> \o CollapseWhitespace(Tail(s))

\* the source text of the value of the declaration of a rule `a{a:v`
ValueText == SubSeq(input, 5, Len(input))

\* C10: the value stored for a declaration is the verbatim reconstruction of
\* its value tokens: the concatenation, in source order, of the textual form
\* of every token between the `:` and the end of the declaration, with each
\* whitespace run replaced by one space (and none at either end); no token is
\* dropped or changed.
C10_ValueVerbatim ==
    pc = "done" /\ input \in ValueInputs
        => \A e \in UNION {rules[i].declarations : i \in 1..Len(rules)} :
              e.value = CollapseWhitespace(Trim(ValueText))

\* the declaration that st stands at begins with a property identifier
\* followed, after optional whitespace, by `:`
HasPropertyAndColon(tk, st) ==
    /\ st.ok /\ st.cur.kind = "Ident"
    /\ css_skip_whitespace(tk, css_advance(tk, st)).cur.kind = "Colon"

\* the declaration that the iteration d of the declaration loop inserts, if
\* any, is well formed
InsertsWellFormed(tk, d) ==
    d.some => d.value # <<>> /\ HasPropertyAndColon(tk, css_skip_whitespace(tk, CssState))

\* C11: a malformed declaration never reaches the declaration map: no rule
\* holds an entry whose value is the empty string, and a declaration lacking
\* a property identifier or a `:` contributes no entry.
C11_NoMalformedEntry ==
    /\ \A i \in 1..Len(rules) : \A e \in rules[i].declarations : e.value # <<>>
    /\ pc = "decls"
          => InsertsWellFormed(CssTokens(input),
                               parse_declarations_step(CssTokens(input), CssState))

-----------------------------------------------------------------------------
(* The claims about the HTML parser.                                       *)

RECURSIVE ElementsOf(_)
\* the elements among the nodes ns and below them
ElementsOf(ns) ==
    UNION {{ns[i]} \cup ElementsOf(ns[i].children) :
             i \in {j \in 1..Len(ns) : ns[j].kind = "Element"}}

\* every element built so far: finished ones and the open ones on the stack
TreeElements == ElementsOf(nodes) \cup ElementsOf(stack)

\* the children of the innermost open element, or the root nodes
Level(frames, roots) == IF frames = <<>> THEN roots ELSE frames[Len(frames)].children

IsVoidName(name) == to_lowercase(name) \in VoidElements

\* a start tag that is self-closing or void becomes, in the step that reads
\* it, a childless element at the level that was open, and that level stays
\* open for the tokens that follow
ClosedAtOnce ==
    pc = "parse" /\ current_token.kind = "StartTag"
    /\ (current_token.self_closing \/ IsVoidName(current_token.text))
        => /\ Len(stack') = Len(stack)
           /\ Len(Level(stack', nodes')) = Len(Level(stack, nodes)) + 1
           /\ SubSeq(Level(stack', nodes'), 1, Len(Level(stack, nodes))) = Level(stack, nodes)
           /\ LET e == Level(stack', nodes')[Len(Level(stack', nodes'))]
              IN  e.kind = "Element" /\ e.tag_name = current_token.text /\ e.children = <<>>

\* C12: every element whose start tag was self-closing or whose name is,
\* compared case-insensitively, a void element has no children: it is never
\* an open element, and the tokens that follow its tag become its siblings.
C12_VoidElementsChildless ==
    /\ [](\A e \in TreeElements : IsVoidName(e.tag_name) => e.children = <<>>)
    /\ [][ClosedAtOnce]_vars

\* `<Br><a/>x`: the text is a sibling of the two elements
C12_Witness ==
    /\ pc = "done" /\ Len(nodes) = 3
    /\ nodes[1].kind = "Element" /\ nodes[1].tag_name = <<"B", "r">> /\ nodes[1].children = <<>>
    /\ nodes[2].kind = "Element" /\ nodes[2].tag_name = <<"a">> /\ nodes[2].children = <<>>
    /\ nodes[3] = TextNode(<<"x">>)

\* the text node that stands for the end tag `name`
EndTagText(name) == TextNode(<<"<", "/">> \o name \o <<">">>)

\* an end tag that does not name the innermost open element becomes a text
\* node among that element's children; no element is closed
MismatchedEndTagKept ==
    pc = "parse" /\ stack # <<>> /\ current_token.kind = "EndTag"
    /\ current_token.text # stack[Len(stack)].tag_name
        => /\ nodes' = nodes
           /\ Len(stack') = Len(stack)
           /\ \A i \in 1..(Len(stack) - 1) : stack'[i] = stack[i]
           /\ stack'[Len(stack)] =
                 [stack[Len(stack)] EXCEPT
                     !.children = Append(@, EndTagText(current_token.text))]

\* C13: while an element is open, an end tag whose name differs from that
\* element's name appends the text node `</name>` to that element's children
\* and closes neither that element nor an ancestor; for `<a><b>x</a>` the
\* children of b are [Text x, Text `</a>`] and the only child of a is b.
C13_MismatchedEndTagIsText ==
    /\ [][MismatchedEndTagKept]_vars
    /\ [](pc = "done" /\ input = <<"<", "a", ">", "<", "b", ">", "x", "<", "/", "a", ">">>
            => nodes = <<Element(<<"a">>, {},
                           <<Element(<<"b">>, {},
                               <<TextNode(<<"x">>), EndTagText(<<"a">>)>>)>>)>>)

\* `<a><b></a>` was parsed: the end tag is a text node inside b
C13_Witness ==
    /\ pc = "done"
    /\ nodes = <<Element(<<"a">>, {}, <<Element(<<"b">>, {}, <<EndTagText(<<"a">>)>>)>>)>>

\* parse returns in the step that meets an end tag at root level, with the
\* nodes built so far
StopsAtRootEndTag ==
    pc = "parse" /\ stack = <<>> /\ current_token.kind = "EndTag"
        => pc' = "done" /\ nodes' = nodes /\ position' = position

\* C14: parse stops at the first end tag it meets at root level: it returns
\* exactly the nodes built before that end tag, with no text node for it, and
\* nothing of the input after that end tag is read or appears in the result
\* (`x</a>x` and `x</a><b>` give [Text x]).
C14_StopsAtRootEndTag ==
    /\ [][StopsAtRootEndTag]_vars
    /\ [](pc = "done" /\ current_token.kind = "EndTag" => stack = <<>>)
    /\ [](pc = "done" /\ input \in {<<"x", "<", "/", "a", ">", "x">>,
                                    <<"x", "<", "/", "a", ">", "<", "b", ">">>}
            => nodes = <<TextNode(<<"x">>)>>)

\* parse returned at an end tag with input left over after it
C14_Witness ==
    /\ pc = "done" /\ current_token.kind = "EndTag"
    /\ nodes = <<TextNode(<<"x">>)>>
    /\ position < ByteLen(input)

\* the map a list of (name, value) pairs stands for: for each name the value
\* of its last pair
LastOccurrences(pairs) ==
    {Entry(pairs[i][1], pairs[i][2]) :
        i \in {j \in 1..Len(pairs) :
                 \A k \in (j + 1)..Len(pairs) : pairs[k][1] # pairs[j][1]}}

\* the element made from the start tag read in this step
NewElement(frames, roots, depth) ==
    IF Len(frames) > depth THEN frames[Len(frames)]
    ELSE Level(frames, roots)[Len(Level(frames, roots))]

ElementHasLastOccurrences ==
    pc = "parse" /\ current_token.kind = "StartTag"
        => LET e == NewElement(stack', nodes', Len(stack))
           IN  /\ e.tag_name = current_token.text
               /\ e.attributes = LastOccurrences(current_token.attributes)

\* C15: an element's attribute map has one entry per distinct attribute name
\* of its start tag; a name that occurs several times has the value of its
\* last occurrence.
C15_AttributesLastWins ==
    /\ [][ElementHasLastOccurrences]_vars
    /\ [](\A e \in TreeElements : \A x, y \in e.attributes : x.key = y.key => x = y)

\* `<a c b=c b='d'>` was parsed
C15_Witness ==
    /\ pc = "done" /\ Len(nodes) = 1 /\ nodes[1].kind = "Element"
    /\ nodes[1].attributes = {Entry(<<"c">>, <<>>), Entry(<<"b">>, <<"d">>)}

-----------------------------------------------------------------------------
(* The claims about the attributes of a start tag.                         *)

\* C16: a StartTag token's attribute list has one (name, value) pair per
\* attribute written in the tag, in source order, repeated names kept as
\* separate pairs; an attribute not followed by `=` has the empty string as
\* value, a quoted value is the text between the quotes and an unquoted value
\* runs up to the next whitespace, `>` or `/`.
C16_AttributeListInOrder ==
    pc = "html_tok" /\ position > 0 /\ input \in AttributeInputs
        => /\ current_token.kind = "StartTag"
           /\ current_token.text = <<"a">>
           /\ [text |-> input, pairs |-> current_token.attributes] \in Tags

-----------------------------------------------------------------------------
(* The claims about the token streams.                                     *)

\* C17: CssTokenizer emits exactly one Whitespace token per maximal run of
\* whitespace characters: a token that starts at a whitespace character is
\* the Whitespace token of the run, the token after a Whitespace token is
\* never a Whitespace token, and the character that follows a Whitespace
\* token is never whitespace.
C17_OneWhitespaceTokenPerRun ==
    /\ pc = "css_tok" /\ position > span.before
       /\ CurrentChar(input, span.before) \in WhitespaceChars
          => current_token.kind = "Whitespace"
    /\ pc = "css_tok" /\ current_token.kind = "Whitespace"
          => /\ css_next_token(input, position).tok.kind # "Whitespace"
             /\ CurrentChar(input, position) \notin WhitespaceChars

\* the variant of the first token of a fresh tokenizer run on the text x
\* ("Panic" when that run crashes)
FirstCssVariant(r) == IF r.ok THEN r.tok.kind ELSE "Panic"
FirstHtmlVariant(r) == IF r.ok THEN r.tok.kind ELSE "Panic"

\* C18: for every token with string content emitted by CssTokenizer or
\* HtmlTokenizer, a fresh tokenizer of the same kind run on exactly that
\* content yields a first token of the same variant.
C18_RoundTripSameVariant ==
    /\ pc = "css_tok"
       /\ current_token.kind \in {"Ident", "String", "Hash", "Comment", "AtKeyword",
                                  "Url", "Dimension"}
          => FirstCssVariant(css_next_token(current_token.text, 0)) = current_token.kind
    /\ pc = "html_tok"
       /\ current_token.kind \in {"StartTag", "EndTag", "Text", "Comment", "Doctype"}
          => FirstHtmlVariant(html_next_token(current_token.text, 0)) = current_token.kind

RECURSIVE TextRun(_)
\* the characters of s before its first `<`
TextRun(s) ==
    IF s = <<>> \/ Head(s) = "<" THEN <<>> ELSE <<Head(s)>> \o TextRun(Tail(s))

\* the input from the cursor position of the last call on
Unread == SubSeq(input, span.before + 1, Len(input))

\* C19: HtmlTokenizer never emits whitespace as a token of its own: no Text
\* token is empty or begins with a whitespace character, while the whitespace
\* inside or at the end of a text run, up to the next `<`, is kept in the
\* Text token.
C19_TextKeepsInnerWhitespace ==
    pc = "html_tok" /\ current_token.kind = "Text"
        => /\ current_token.text # <<>>
           /\ Head(current_token.text) \notin WhitespaceChars
           /\ current_token.text = TextRun(TrimStart(Unread))

\* one call of CssTokenizer::next_token that returns: the cursor does not go
\* back and stays within the input, a token moves it forward, and
\* end-of-input leaves the tokenizer in a state where the next call returns
\* end-of-input again
CssCallSinglePass ==
    pc = "css_tok" /\ pc' \in {"css_tok", "done"}
        => /\ position' >= position
           /\ position' <= ByteLen(input)
           /\ current_token' # NoToken => position' > position
           /\ current_token' = NoToken
                 => /\ position' = position
                    /\ css_next_token(input, position') = Returned(NoToken, position')

\* C20: CssTokenizer is single-pass and finite: the cursor never decreases
\* and never exceeds the input length, every next_token call that returns a
\* token strictly increases the cursor, and once next_token has returned
\* end-of-input every later call returns end-of-input.
C20_CssSinglePass ==
    /\ [][CssCallSinglePass]_vars
    /\ [](pc = "css_tok" => span.before <= position /\ position <= ByteLen(input))

\* the second token of an input was read up to the end of the input; the
\* call after it returns end-of-input
C20_Witness ==
    /\ pc = "css_tok" /\ current_token.kind = "Ident" /\ span.before > 0
    /\ position = ByteLen(input)
    /\ css_next_token(input, position).tok = NoToken

-----------------------------------------------------------------------------
(* The claims about the tokens of HtmlTokenizer.                           *)

\* the characters of s from the character index p on
CharsFrom(s, p) == SubSeq(s, p + 1, Len(s))

\* at the character index p of s there is a `<` that starts no comment, no
\* doctype and no tag name
InvalidTagAt(s, p) ==
    LET rest == CharsFrom(s, p + 1)
        name == IF rest # <<>> /\ Head(rest) = "/" THEN Tail(rest) ELSE rest
    IN  /\ CurrentChar(s, p) = "<"
        /\ ~starts_with(rest, <<"!", "-", "-">>)
        /\ ~starts_with(to_lowercase(rest), <<"!", "d", "o", "c", "t", "y", "p", "e">>)
        /\ (name = <<>> \/ Head(name) \notin NameChars)

\* the next_token call from the present state, as far as it returns
NextHtmlCall == html_next_token(input, position)

\* C21: when a `<` is not followed by a tag name (and is not the start of a
\* comment or doctype), HtmlTokenizer emits the invalid `<...` span as a Text
\* token that begins at that `<`; the input after it is still tokenized, so
\* the tokenizer signals end-of-input only when no character of the input is
\* left to read.
C21_InvalidTagIsText ==
    pc = "html_tok" /\ NextHtmlCall.ok /\ ~NextHtmlCall.open
        => /\ InvalidTagAt(input, ScanWhile(input, position, WhitespaceChars))
                => /\ NextHtmlCall.tok.kind = "Text"
                   /\ Head(NextHtmlCall.tok.text) = "<"
           /\ NextHtmlCall.tok = NoToken => CurrentChar(input, NextHtmlCall.pos) = NoChar

RECURSIVE Before(_, _)
\* the characters of s before its first c, all of s when it has no c
Before(s, c) ==
    IF s = <<>> \/ Head(s) = c THEN <<>> ELSE <<Head(s)>> \o Before(Tail(s), c)

\* where the call that returned the present token found its first character
TokenStart == ScanWhile(input, span.before, WhitespaceChars)

\* the text `<!doctype`, in any case, stands at the character index p of s
DoctypeAt(s, p) ==
    /\ CurrentChar(s, p) = "<"
    /\ starts_with(to_lowercase(CharsFrom(s, p + 1)),
                   <<"!", "d", "o", "c", "t", "y", "p", "e">>)

\* C22: a Doctype token's content is the entire raw input text between `<!`
\* and the next `>` (or the end of input when there is no `>`), unparsed; the
\* `!doctype` prefix is recognised case-insensitively.
C22_DoctypeContentRaw ==
    /\ pc = "html_tok" /\ current_token.kind = "Doctype"
          => current_token.text = Before(CharsFrom(input, TokenStart + 2), ">")
    /\ pc = "html_tok" /\ NextHtmlCall.ok
       /\ DoctypeAt(input, ScanWhile(input, position, WhitespaceChars))
          => NextHtmlCall.tok.kind = "Doctype"

-----------------------------------------------------------------------------
(* The claims about the rules CssParser returns.                           *)

\* C23: CssParser::parse returns rules in source order: for an input made of
\* n well-formed rules separated only by whitespace or comments it returns
\* exactly n rules and the i-th returned rule is built from the i-th rule of
\* the input.
C23_RulesInSourceOrder ==
    input \in RuleSeqInputs
        => /\ pc # "panic"
           /\ pc = "done" => [text |-> input, rules |-> rules] \in RuleSeqs

\* the iteration of the loop of parse_declarations that starts in the present
\* state
NextDeclarationsIteration == parse_declarations_step(CssTokens(input), CssState)

\* C24: in parse_declarations every loop iteration that does not exit
\* consumes at least one token, also when parse_declaration rejects the
\* declaration (current token is not an identifier, no `:` follows, or the
\* value is empty), so the loop always reaches `}` or end-of-input.
C24_DeclarationLoopConsumes ==
    pc = "decls" /\ ~NextDeclarationsIteration.exit /\ NextDeclarationsIteration.st.ok
        => \/ NextDeclarationsIteration.st.pos > position
           \/ NextDeclarationsIteration.st.cur = NoToken

-----------------------------------------------------------------------------
(* The claims about the attribute loop of a start tag.                     *)

\* where the iteration of the attribute loop that starts in the present state
\* finds its first character, after the skip_whitespace of the loop
AttributeStart == ScanWhile(input, position, WhitespaceChars)

\* that iteration
NextAttributeIteration == attribute_loop(input, tag.tok, position)

\* the character there can start neither an attribute name nor the end of the
\* tag
NoNameAt(s, p) == CurrentChar(s, p) \notin {NoChar, ">", "/"} \cup NameChars

\* C25: in the start-tag attribute loop of HtmlTokenizer, when parse_attribute
\* finds an empty attribute name (the current character is neither
\* whitespace, `>`, `/` nor a name character, e.g. `=`, a quote or `<`) it
\* reports no attribute and the loop terminates; every iteration of the loop
\* either exits or moves the cursor forward.
C25_EmptyNameEndsLoop ==
    pc = "attrs" /\ NextAttributeIteration.ok
        => /\ NoNameAt(input, AttributeStart)
                => /\ ~parse_attribute(input, AttributeStart).some
                   /\ NextAttributeIteration.break
           /\ NextAttributeIteration.break \/ NextAttributeIteration.pos > position

-----------------------------------------------------------------------------
(* The claims about the tokens of CssTokenizer.                            *)

\* next_token, called with the cursor at p, dispatches to consume_number
DispatchesToNumber(s, p) ==
    LET ch == CurrentChar(s, p)
    IN  /\ p < ByteLen(s) /\ ch # NoChar
        /\ \/ ch \in AsciiDigits
           \/ ch = "." /\ PeekChar(s, p, 1) # NoChar /\ PeekChar(s, p, 1) \in AsciiDigits
           \/ ch = "-" /\ is_number_start(s, p)

HasDigit(l) == \E i \in 1..Len(l) : l[i] \in AsciiDigits

\* C26: consume_number is entered only on input for which the numeric lexeme
\* it collects (optional leading `-`, digits, at most one `.`) contains at
\* least one digit, so the numeric parse cannot fail and the 0.0 default is
\* never the result of a failed parse; this holds for every input on which
\* next_token dispatches to consume_number (digit, `.`+digit, `-`+digit,
\* `-`+`.`).
C26_NumberParseCannotFail ==
    pc = "css_tok" /\ DispatchesToNumber(input, position)
    /\ NumberLexeme(input, position).ok
        => /\ HasDigit(NumberLexeme(input, position).str)
           /\ IsF64(NumberLexeme(input, position).str)

-----------------------------------------------------------------------------
(* The claims about declaration values.                                    *)

\* the declarations stored so far: those of the returned rules and those of
\* the block being read
StoredDeclarations ==
    declarations \cup UNION {rules[i].declarations : i \in 1..Len(rules)}

NoOuterWhitespace(v) ==
    v # <<>> => Head(v) \notin WhitespaceChars /\ v[Len(v)] \notin WhitespaceChars

NoDoubleSpace(v) == \A i \in 1..(Len(v) - 1) : ~(v[i] = " " /\ v[i + 1] = " ")

\* C27: a declaration value stored by CssParser never begins or ends with
\* whitespace and never contains two consecutive spaces, whatever tokens
\* (whitespace runs, comments, structural tokens) occur between the `:` and
\* the end of the declaration.
C27_ValueWhitespaceNormal ==
    \A e \in StoredDeclarations : NoOuterWhitespace(e.value) /\ NoDoubleSpace(e.value)

-----------------------------------------------------------------------------
(* The claims about the top-level loop of CssParser::parse.                *)

\* the token at which the attempt of parse_rule made in the present state
\* begins, after the skip_whitespace of the loop
AttemptStart == css_skip_whitespace(CssTokens(input), CssState)

\* the parser after that attempt and, when it failed, the advance that
\* follows it
NextAttempt == parse_rule_prelude(CssTokens(input), CssState)

\* the parser at the token immediately after the one the attempt begins at
AfterFirstToken == css_advance(CssTokens(input), AttemptStart)

\* an attempt of parse_rule is about to be made and fails without a crash
AttemptFails ==
    pc = "parse" /\ current_token # NoToken /\ ~NextAttempt.some /\ NextAttempt.st.ok

\* C28 as stated: when parse_rule fails, CssParser::parse resynchronises by
\* skipping exactly one token and retrying: the retry starts at the token
\* immediately after the one at which the failed attempt began, so no token
\* other than that single one is discarded by a failed attempt.
C28_SkipsExactlyOneToken ==
    AttemptFails
        => css_skip_whitespace(CssTokens(input), NextAttempt.st)
             = css_skip_whitespace(CssTokens(input), AfterFirstToken)

\* parse_simple_selector consumes the token
StartsSelector(tok) ==
    \/ tok.kind \in {"Ident", "Hash"}
    \/ tok.kind = "Delim" /\ tok.text \in {<<".">>, <<"*">>}

RECURSIVE Later(_, _, _)
\* the parser state b is a, or comes after a by advancing
Later(tk, a, b) ==
    IF a = b THEN TRUE
    ELSE IF ~a.ok \/ a.cur = NoToken THEN FALSE
    ELSE Later(tk, css_advance(tk, a), b)

\* a failed attempt that began at the parser state `start` and left the
\* parser at `after`, `first` being the state at the token after `start`
NotGivenBack(tk, start, first, after) ==
    /\ Later(tk, first, after)
    /\ ~StartsSelector(start.cur) => after = first
    /\ StartsSelector(start.cur) /\ first.cur # NoToken => after # first

\* a step of parse in which the attempt of parse_rule fails without a crash:
\* the loop goes on at the state the step leaves the parser in
FailedAttemptStep ==
    pc = "parse" /\ pc' = "parse"
        => NotGivenBack(CssTokens(input), AttemptStart, AfterFirstToken,
                        ParserState(position', current_token', TRUE))

\* C28: when parse_rule fails, the tokens it consumed before failing are not
\* given back: parse skips the token at which the attempt failed and retries
\* after it.  The retry starts at the token immediately after the one at
\* which the attempt began only when the attempt fails at its first token (no
\* simple selector starts there); an attempt that fails after it consumed a
\* selector token discards that token and at least one more, unless the
\* input ends.
C28_FailedAttemptNotGivenBack == [][FailedAttemptStep]_vars

\* the attempt at `a;` failed: `a` and `;` are discarded and the retry begins
\* at the second `a`
C28_Witness ==
    /\ pc = "parse" /\ input = <<"a", ";", "a", "{">>
    /\ position = 3 /\ current_token.kind = "Ident" /\ rules = <<>>

-----------------------------------------------------------------------------
(* The claims about a rule that the end of input cuts off.                 *)

\* the input has no `}`: a rule that is opened in it is ended by the end of
\* input
Unclosed == \A i \in 1..Len(input) : input[i] # "}"

\* the rule under way is returned: the iteration of the declaration loop made
\* in the present state exits the loop or takes it nearer to the end of input
RuleGetsReturned ==
    pc = "decls" /\ Unclosed /\ NextDeclarationsIteration.st.ok
        => \/ NextDeclarationsIteration.exit
           \/ NextDeclarationsIteration.st.pos > position
           \/ NextDeclarationsIteration.st.cur = NoToken

\* the returned rule of an unclosed block of declarations holds its
\* well-formed declarations
UnclosedBlockKept ==
    pc = "done" /\ Unclosed /\ input \in DeclarationInputs
        => \A b \in Blocks :
              input = <<"a", "{">> \o b.text
                  => rules = <<Rule(<<Simple("Type", <<"a">>)>>, LastWellFormed(b.decls))>>

\* a declaration whose value is ended by the end of input is in the map of
\* the returned rule
UnclosedValueKept ==
    pc = "done" /\ input \in ValueInputs /\ Trim(ValueText) # <<>>
        => /\ Len(rules) = 1
           /\ \E e \in rules[1].declarations : e.key = <<"a">>

\* C29: a rule whose closing `}` is missing because the input ends is still
\* returned by CssParser::parse, with every well-formed declaration read
\* before end-of-input in its map (a value terminated by end-of-input counts
\* as well-formed).
C29_UnclosedRuleReturned == RuleGetsReturned /\ UnclosedBlockKept /\ UnclosedValueKept

-----------------------------------------------------------------------------
(* The claims about unterminated literals.                                 *)

Has(l, c) == \E i \in 1..Len(l) : l[i] = c

\* the input after the `/*` of the comment that was read last, and whether a
\* `*/` closes it
CommentRest == CharsFrom(input, span.before + 2)
CommentClosed == \E i \in 1..(Len(CommentRest) - 1) : SubSeq(CommentRest, i, i + 1) = <<"*", "/">>

\* the input after the opening quote of the string that was read last, and
\* whether that quote closes it
StringRest == CharsFrom(input, span.before + 1)
StringClosed == Has(StringRest, input[span.before + 1]) \/ Has(StringRest, "\\")

\* the input after the `url(` that was read last and the whitespace that
\* follows it
UrlOpen == TrimStart(CharsFrom(input, span.before + 4))
UrlQuoted == UrlOpen # <<>> /\ Head(UrlOpen) \in {"\"", "'"}
\* the input after the opening quote too, when there is one, and whether the
\* quote or, without a quote, a `)` closes the literal
UrlRest == IF UrlQuoted THEN Tail(UrlOpen) ELSE UrlOpen
UrlClosed == IF UrlQuoted THEN Has(UrlRest, Head(UrlOpen)) ELSE Has(UrlRest, ")")

\* the token read last is the rest of the input, and the tokenizer is at its
\* end
RestIsToken(rest) ==
    /\ current_token.text = rest
    /\ position = ByteLen(input)
    /\ css_next_token(input, position).tok = NoToken

\* C30: in CssTokenizer an unterminated block comment, quoted string or url(
\* literal is emitted as a Comment, String or Url token whose content is the
\* whole remainder of the input after the opening delimiter; the cursor is
\* then at the input length and the next call returns end-of-input.
C30_UnterminatedLiteralToEnd ==
    pc = "css_tok" /\ position > span.before
        => /\ current_token.kind = "Comment" /\ ~CommentClosed => RestIsToken(CommentRest)
           /\ current_token.kind = "String" /\ ~StringClosed => RestIsToken(StringRest)
           /\ current_token.kind = "Url" /\ ~UrlClosed => RestIsToken(UrlRest)

-----------------------------------------------------------------------------
(* The claims about unterminated constructs of HtmlTokenizer.              *)

RECURSIVE UpTo(_, _)
\* the characters of l before the first place where `close` stands in it,
\* all of l when `close` stands nowhere
UpTo(l, close) ==
    IF l = <<>> \/ starts_with(l, close) THEN <<>>
    ELSE <<Head(l)>> \o UpTo(Tail(l), close)

\* the input after the `<` of the token that was read last
TagRest == CharsFrom(input, TokenStart + 1)

\* the input after the `<!--` of the comment that was read last
CommentBody == CharsFrom(input, TokenStart + 4)

\* the tokenizer has consumed the whole input and the next call returns
\* end-of-input
AtEndOfInput ==
    /\ position = ByteLen(input)
    /\ NextHtmlCall = Returned(NoToken, position) @@ [open |-> FALSE]

\* at the cursor p of s stands an attribute whose value opens with a quote
\* that is closed nowhere: the character index after that quote, -1 otherwise
OpenQuoteAt(s, p) ==
    LET name_end == ScanWhile(s, p, NameChars)
        eq == ScanWhile(s, name_end, WhitespaceChars)
        quote == ScanWhile(s, Advance(s, eq), WhitespaceChars)
    IN  IF /\ name_end > p
           /\ CurrentChar(s, eq) = "="
           /\ CurrentChar(s, quote) \in {"\"", "'"}
           /\ ~Has(CharsFrom(s, quote + 1), CurrentChar(s, quote))
        THEN quote + 1
        ELSE -1

\* the token that was read last is what the claim says of a construct that
\* is not terminated, and a comment has the content the claim says
TokenOfUnterminated ==
    pc = "html_tok" /\ position > span.before
        => /\ current_token.kind = "Comment"
                 => /\ current_token.text = UpTo(CommentBody, <<"-", "-", ">">>)
                    /\ UpTo(CommentBody, <<"-", "-", ">">>) = CommentBody => AtEndOfInput
           /\ current_token.kind = "Doctype" /\ ~Has(TagRest, ">")
                 => current_token.text = TagRest /\ AtEndOfInput
           /\ current_token.kind = "EndTag" /\ ~Has(TagRest, ">")
                 => /\ current_token.text
                          = SubSeq(TagRest, 2, ScanWhile(TagRest, 1, NameChars))
                    /\ AtEndOfInput
           /\ current_token.kind = "StartTag" /\ ~Has(TagRest, ">") => AtEndOfInput

\* inside a start tag that is not terminated, the attribute loop goes on to
\* the end of the input, where the token is emitted: an iteration ends the
\* loop or consumes input, and a quoted value that is not closed is the rest
\* of the input
UnterminatedTagGoesOn ==
    pc = "attrs" /\ ~Has(CharsFrom(input, position), ">")
        => /\ NextAttributeIteration.ok
           /\ NextAttributeIteration.break \/ NextAttributeIteration.pos > position
           /\ OpenQuoteAt(input, AttributeStart) >= 0
                 => /\ NextAttributeIteration.pos = ByteLen(input)
                    /\ NextAttributeIteration.tok.attributes # <<>>
                    /\ NextAttributeIteration.tok.attributes[
                           Len(NextAttributeIteration.tok.attributes)][2]
                         = CharsFrom(input, OpenQuoteAt(input, AttributeStart))

\* C31: in HtmlTokenizer an unterminated comment, doctype, end tag, start tag
\* or quoted attribute value is tolerated: the construct consumes the rest of
\* the input, its token is still emitted with the content read so far, and
\* the next call returns end-of-input; a terminated comment's content is
\* exactly the text between `<!--` and the first following `-->`.
C31_UnterminatedTolerated == TokenOfUnterminated /\ UnterminatedTagGoesOn

-----------------------------------------------------------------------------
(* The claims about the literals of CssTokenizer.                          *)

RECURSIVE UnescapedQuote(_, _, _)
\* the index in l, from i on, of the first `quote` that no backslash stands
\* before, 0 when there is none: a backslash takes the character after it
\* with it
UnescapedQuote(l, i, quote) ==
    IF i > Len(l) THEN 0
    ELSE IF l[i] = quote THEN i
    ELSE IF l[i] = "\\" THEN UnescapedQuote(l, i + 2, quote)
    ELSE UnescapedQuote(l, i + 1, quote)

\* the next_token call from the present state
NextCssCall == css_next_token(input, position)

\* the input after the character at the cursor
AfterCursor == CharsFrom(input, position + 1)

\* C32: in a CSS quoted string a backslash and the character after it are
\* both skipped without interpretation, so an escaped quote character does
\* not end the string; the String token's content is the raw text between the
\* opening quote and the first unescaped matching quote, backslashes
\* included.
C32_StringRawUpToUnescapedQuote ==
    pc = "css_tok" /\ CurrentChar(input, position) \in {"\"", "'"}
       /\ UnescapedQuote(AfterCursor, 1, CurrentChar(input, position)) > 0
        => NextCssCall
             = Returned(Token("String",
                              SubSeq(AfterCursor, 1,
                                     UnescapedQuote(AfterCursor, 1,
                                                    CurrentChar(input, position)) - 1),
                              <<>>),
                        position + 1
                          + UnescapedQuote(AfterCursor, 1, CurrentChar(input, position)))

\* an identifier starts at the character index p of s: a letter, `_`, or a
\* `-` that starts no number
IdentStartsAt(s, p) ==
    \/ CurrentChar(s, p) \in AsciiLetters \cup {"_"}
    \/ CurrentChar(s, p) = "-" /\ PeekChar(s, p, 1) \notin AsciiDigits \cup {"."}

\* the identifier at the cursor: the character index of its end, and its text
IdentEnd == ScanWhile(input, position, NameChars)
IdentText == SubSeq(input, position + 1, IdentEnd)

\* the identifier at the cursor is exactly `url` and a `(` comes right after
UrlOpens == IdentText = <<"u", "r", "l">> /\ CurrentChar(input, IdentEnd) = "("

\* the input after that `(` and the whitespace that follows it
UrlBody == TrimStart(CharsFrom(input, IdentEnd + 1))

RECURSIVE After(_, _)
\* the characters of l after its first c, none when it has no c
After(l, c) ==
    IF l = <<>> THEN <<>> ELSE IF Head(l) = c THEN Tail(l) ELSE After(Tail(l), c)

\* a url( body that begins with a quote
Quoted(body) == body # <<>> /\ Head(body) \in {"\"", "'"}

\* the body is closed: by the matching quote and a `)` after it, or by a `)`
UrlIsClosed(body) ==
    IF Quoted(body)
    THEN Has(Tail(body), Head(body)) /\ Has(After(Tail(body), Head(body)), ")")
    ELSE Has(body, ")")

\* the content the claim gives the token, and the input after the closing `)`
UrlContent(body) ==
    IF Quoted(body) THEN Before(Tail(body), Head(body)) ELSE Trim(Before(body, ")"))
UrlTail(body) ==
    IF Quoted(body) THEN After(After(Tail(body), Head(body)), ")") ELSE After(body, ")")

\* C33: when the identifier text is exactly `url` and the next character is
\* `(`, CssTokenizer emits a single Url token: for an unquoted body its
\* content is the text up to the first `)` with leading and trailing
\* whitespace removed, for a quoted body it is the text between the quotes,
\* and in both cases the closing `)` is consumed so the next token starts
\* after it; any other identifier, or `url` not immediately followed by `(`,
\* yields an Ident token.
C33_UrlToken ==
    pc = "css_tok" /\ IdentStartsAt(input, position)
        => IF UrlOpens
           THEN /\ NextCssCall.ok
                /\ NextCssCall.tok.kind = "Url"
                /\ UrlIsClosed(UrlBody)
                      => /\ NextCssCall.tok = Token("Url", UrlContent(UrlBody), <<>>)
                         /\ CharsFrom(input, NextCssCall.pos) = UrlTail(UrlBody)
           ELSE NextCssCall = Returned(Token("Ident", IdentText, <<>>), IdentEnd)

-----------------------------------------------------------------------------
(* The claims about self-closing start tags.                               *)

\* the start tag after a step: still in its attribute loop, or returned
TagAfterStep == IF pc' = "attrs" THEN tag'.tok ELSE current_token'

\* the iteration that starts in the present state finds `/` and then `>`
SlashThenGt ==
    /\ CurrentChar(input, AttributeStart) = "/"
    /\ CurrentChar(input, AttributeStart + 1) = ">"

\* a call enters the attribute loop with the flag unset; an iteration of the
\* loop leaves the flag set exactly when it finds `/>`, and then it ends the
\* tag after the `>`; an iteration that finds another `/` skips it and
\* nothing else, and the tag goes on
SelfClosingStep ==
    /\ pc # "attrs" /\ pc' = "attrs" => ~tag'.tok.self_closing
    /\ pc = "attrs" /\ pc' # "panic"
          => /\ TagAfterStep.self_closing <=> SlashThenGt
             /\ SlashThenGt
                   => /\ pc' = tag.ret
                      /\ current_token' = [tag.tok EXCEPT !.self_closing = TRUE]
                      /\ position' = AttributeStart + 2
             /\ CurrentChar(input, AttributeStart) = "/" /\ ~SlashThenGt
                   => /\ pc' = "attrs"
                      /\ tag'.tok = tag.tok
                      /\ position' = AttributeStart + 1

\* C34: a StartTag token has self_closing = true exactly when the tag was
\* ended by `/` immediately followed by `>`; a `/` inside a start tag that is
\* not immediately followed by `>` is skipped, does not set the flag and does
\* not end the tag.
C34_SelfClosingOnlyBySlashGt == [][SelfClosingStep]_vars

\* `<a/ />` was read: the first `/` was skipped, the second ended the tag
C34_Witness ==
    /\ pc = "html_tok" /\ input = <<"<", "a", "/", " ", "/", ">">>
    /\ current_token = HtmlToken("StartTag", <<"a">>, <<>>, TRUE)
    /\ position = 6

-----------------------------------------------------------------------------
(* The claims about the elements HtmlParser closes.                        *)

\* the stack without its innermost element
Outer(frames) == SubSeq(frames, 1, Len(frames) - 1)

\* a step that reads an end tag while an element is open closes that element
\* exactly when the two names are equal: then the element, as it is, becomes
\* the last node of the level around it, nothing else is added and the
\* tokenizer is asked for the token after the end tag; otherwise every open
\* element stays open
EndTagClosesByExactName ==
    pc = "parse" /\ stack # <<>> /\ current_token.kind = "EndTag"
        => IF current_token.text = stack[Len(stack)].tag_name
           THEN /\ Len(stack') = Len(stack) - 1
                /\ Level(stack', nodes')
                     = Append(Level(Outer(stack), nodes), stack[Len(stack)])
                /\ \A i \in 1..(Len(stack) - 2) : stack'[i] = stack[i]
                /\ stack # <<stack[Len(stack)]>> => nodes' = nodes
                /\ span'.before = position
           ELSE /\ Len(stack') = Len(stack)
                /\ \A i \in 1..Len(stack) : stack'[i].tag_name = stack[i].tag_name

\* C35: an end-tag closes the innermost open element if and only if its name
\* is exactly equal, case-sensitively, to the name of that element's start
\* tag; the matching end-tag is consumed and produces no node, and a name that
\* differs only in letter case does not close the element.
C35_EndTagClosesByExactName == [][EndTagClosesByExactName]_vars

\* `<a></A>x</a>` was parsed: `</A>` did not close a, `</a>` did
C35_Witness ==
    /\ pc = "done"
    /\ nodes = <<Element(<<"a">>, {}, <<EndTagText(<<"A">>), TextNode(<<"x">>)>>)>>

\* at the end of the token stream an open element is returned, as it is, to
\* the level around it, where it becomes the last node; nothing else changes,
\* and with no element open parse returns the root nodes as they are
ClosedAtEndOfInput ==
    pc = "parse" /\ current_token = NoToken
        => IF stack # <<>>
           THEN /\ pc' = "parse" /\ current_token' = NoToken
                /\ Len(stack') = Len(stack) - 1
                /\ Level(stack', nodes')
                     = Append(Level(Outer(stack), nodes), stack[Len(stack)])
                /\ \A i \in 1..(Len(stack) - 2) : stack'[i] = stack[i]
                /\ stack # <<stack[Len(stack)]>> => nodes' = nodes
           ELSE pc' = "done" /\ nodes' = nodes /\ stack' = stack

\* C36: if the input ends while k >= 1 elements are still open,
\* HtmlParser::parse closes all of them silently: each is returned nested in
\* its parent with exactly the children collected so far, and no node built
\* before end-of-input is missing from the returned tree.
C36_OpenElementsClosedAtEnd ==
    /\ [][ClosedAtEndOfInput]_vars
    /\ [](pc = "done" => stack = <<>>)
    /\ [](pc = "done" /\ input = <<"<", "a", ">", "x", "<", "b", ">">>
            => nodes = <<Element(<<"a">>, {},
                           <<TextNode(<<"x">>), Element(<<"b">>, {}, <<>>)>>)>>)

\* `<a><b>x` was parsed: the input ended with a and b open
C36_Witness ==
    /\ pc = "done" /\ input = <<"<", "a", ">", "<", "b", ">", "x">>
    /\ nodes = <<Element(<<"a">>, {}, <<Element(<<"b">>, {}, <<TextNode(<<"x">>)>>)>>)>>

-----------------------------------------------------------------------------
(* The claims about the nodes HtmlParser leaves out.                       *)

RECURSIVE NodesOf(_)
\* the nodes ns and every node below them
NodesOf(ns) ==
    UNION {{ns[i]} \cup (IF ns[i].kind = "Element" THEN NodesOf(ns[i].children) ELSE {}) :
             i \in 1..Len(ns)}

\* every node built so far: below the root nodes and below the open elements
TreeNodes == NodesOf(nodes) \cup NodesOf(stack)

\* a step that reads a doctype, or a text that is empty or only whitespace,
\* leaves the tree as it is, at root level as inside an element
LeftOut ==
    /\ pc = "parse"
    /\ \/ current_token.kind = "Doctype"
       \/ current_token.kind = "Text" /\ Trim(current_token.text) = <<>>

\* C37: the tree returned by HtmlParser::parse contains no Text node that is
\* empty or whitespace-only, and no node at all for a doctype token, wherever
\* in the document (root or inside an element) the whitespace-only text or
\* the doctype occurs.
C37_NoBlankTextNoDoctype ==
    /\ [](\A n \in TreeNodes :
            /\ n.kind \in {"Element", "Text", "Comment"}
            /\ n.kind = "Text" => Trim(n.text) # <<>>)
    /\ [][LeftOut => stack' = stack /\ nodes' = nodes]_vars

\* `<a> <!Doctype>` was parsed: a has no child
C37_Witness ==
    /\ pc = "done"
    /\ input = <<"<", "a", ">", " ", "<", "!", "D", "o", "c", "t", "y", "p", "e", ">">>
    /\ nodes = <<Element(<<"a">>, {}, <<>>)>>

-----------------------------------------------------------------------------
(* The claims about the combinators of a selector.                         *)

ParserAt(tk, p) == css_advance(tk, ParserState(p, NoToken, TRUE))

\* `>`, `+` or `~`
IsCombinatorToken(tok) ==
    tok.kind = "Delim" /\ tok.text \in {<<">">>, <<"+">>, <<"~">>}

\* a simple selector stands at the current token of st
SimpleSelectorAt(tk, st) ==
    \/ st.cur.kind \in {"Ident", "Hash"}
    \/ st.cur.kind = "Delim" /\ st.cur.text = <<"*">>
    \/ /\ st.cur.kind = "Delim" /\ st.cur.text = <<".">>
       /\ css_advance(tk, st).cur.kind = "Ident"

\* the token after the combinator at st and the whitespace that follows it
AfterCombinator(tk, st) == css_skip_whitespace(tk, css_advance(tk, st))

\* with the selector `sel` built so far and a combinator at st that no simple
\* selector follows, the loop of parse_selector goes on as if it had been
\* entered at the token after the combinator with `sel`
CombinatorDropped(tk, st, sel) ==
    st.ok /\ IsCombinatorToken(st.cur) /\ AfterCombinator(tk, st).ok
       /\ ~SimpleSelectorAt(tk, AfterCombinator(tk, st))
        => SelectorLoop(tk, sel, st) = SelectorLoop(tk, sel, AfterCombinator(tk, st))

\* C39: when a `>`, `+` or `~` combinator token is not followed by a simple
\* selector, the combinator token is consumed and dropped: the selector built
\* so far is left unchanged and selector parsing continues from the following
\* token, so `div > { ... }` yields a rule whose selector is Type(div).
C39_DanglingCombinatorDropped ==
    /\ pc = "parse" /\ rules = <<>>
          => \A p \in 0..Len(input) :
                CombinatorDropped(CssTokens(input), ParserAt(CssTokens(input), p),
                                  DivShape.sel)
    /\ pc = "done" /\ input = <<"d", "i", "v", " ", ">", " ", "{">>
          => rules = <<Rule(<<DivShape.sel>>, {})>>

====
